---- MODULE Spec2Model ----
(***************************************************************************)
(* ParamDB: parameter data (ParamData nodes with parent links and          *)
(* last-updated timestamps), the JSON codec, and the commit log of the     *)
(* database.                                                               *)
(***************************************************************************)
EXTENDS Integers, Sequences, FiniteSets, TLC

(* ---------------------------------------------------------------------- *)
(* Bounds                                                                  *)
(* ---------------------------------------------------------------------- *)
MaxNodes == 4          \* ParamData objects alive at the same time
MaxClock == 2          \* largest value the clock reaches
MaxLen == 2            \* largest number of items of a ParamList / ParamDict
MaxInit == 1           \* largest number of items given to a constructor
MaxOps == 4            \* largest number of operations in a run
MaxCommits == 2        \* largest number of commits in the database
MaxShareOps == 3       \* largest number of operations in a run that shares objects
MaxSliceOps == 4       \* largest number of operations in a run that slices lists
MaxAttrOps == 2        \* largest number of operations that change a dictionary read by attribute

None == 0
Nodes == 1..MaxNodes

\* A Python value: t is the name of its type, v the text of a scalar, lu the
\* last_updated of a ParamData object, items the items of a list, dict or ParamData
\* object (k: key, kt: type of the key, x: the item)
Scalar(t, v) == [t |-> t, v |-> v, lu |-> 0, items |-> <<>>]
Item(k, kt, x) == [k |-> k, kt |-> kt, x |-> x]
PyList(xs) == [t |-> "list", v |-> "", lu |-> 0,
               items |-> [i \in DOMAIN xs |-> Item("", "", xs[i])]]
PyDict(items) == [t |-> "dict", v |-> "", lu |-> 0, items |-> items]
NoValue == Scalar("", "")

DEFAULT_NUMBER == Scalar("float", "1.23")
OtherNumber == Scalar("float", "4.56")
NotJSONSerializable == Scalar("NotJSONSerializable", "object")

WrapperCls == "_ParamWrapper"
ListCls == "ParamList"
DictCls == "ParamDict"
StructCls == "SimpleParam"
Keys == {"a", "b"}

\* fields(SimpleParam): name and whether the field is an __init__ argument
SimpleParamFields == << [name |-> "number", init |-> TRUE],
                        [name |-> "number_init_false", init |-> FALSE] >>

VARIABLES heap,   \* the ParamData objects: id -> attributes
          now,    \* last value returned by datetime.now()
          last    \* the last operation: its container, the first clock value it read,
                  \* and its last call of _update_last_updated
VARIABLE steps  \* number of operations performed
VARIABLES log,       \* the rows of table snapshot, in the order of their ids
          ret,       \* what the last call of a method of ParamDB returned or raised
          hist,      \* a commit_history call between its two queries
          returned   \* for each commit: the entry commit() returned, the object
                     \* committed as it was then, and the bytes stored
VARIABLE _param_classes   \* the names of the classes get_param_class() finds
dbvars == <<log, ret, hist, returned>>
vars == <<heap, now, last, steps, log, ret, hist, returned, _param_classes>>

\* non_field: the attribute of that name, which is not a field of the class of the
\* object (n: a ParamData object, p: a plain value)
FreeNode == [cls |-> "", _parent |-> None, _last_updated |-> 0,
             keys |-> <<>>, _contents |-> <<>>, value |-> NoValue,
             non_field |-> [n |-> None, p |-> NoValue]]

Live(h) == {n \in Nodes : h[n].cls # ""}
FreeIds(h) == Nodes \ Live(h)
Alloc(h) == CHOOSE n \in FreeIds(h) : \A m \in FreeIds(h) : n <= m
IsContainer(h, n) == h[n].cls \in {ListCls, DictCls, StructCls}
Range(s) == {s[i] : i \in DOMAIN s}

\* A value handed to an operation: an existing ParamData object (n) or a plain value (p)
NodeValue(n) == [n |-> n, p |-> NoValue]
PlainValue(p) == [n |-> None, p |-> p]
GraphPlain == {DEFAULT_NUMBER}

\* Sequences of k consecutive clock readings: the clock never goes backwards and
\* may return the same value twice
ClockReads(k) == {s \in [1..k -> now..MaxClock] :
                    \A i \in 1..k : s[i] - (IF i = 1 THEN now ELSE s[i - 1]) \in {0, 1}}

(* ---------------------------------------------------------------------- *)
(* ParamData                                                               *)
(* ---------------------------------------------------------------------- *)
\* ParamData.__init__ of a new object of class cls
ParamData__init__(h, n, cls, t) ==
    [h EXCEPT ![n] = [FreeNode EXCEPT !.cls = cls, !._last_updated = t]]

_wrap_child(h, v, t) ==
    IF v.n # None
    THEN [heap |-> h, child |-> v.n]
    ELSE LET w == Alloc(h)
         IN [heap |-> [ParamData__init__(h, w, WrapperCls, t) EXCEPT ![w].value = v.p],
             child |-> w]

\* A read that hands out what the slot holds
_unwrap_child_as_stored(h, wrapped_child) == NodeValue(wrapped_child)
\* _unwrap_child(wrapped_child): the inner value of a wrapper, the object otherwise
_unwrap_child(h, wrapped_child) ==
    IF h[wrapped_child].cls = WrapperCls
    THEN PlainValue(h[wrapped_child].value)
    ELSE NodeValue(wrapped_child)

\* _update_last_updated() that stamps the object without comparing the timestamps
_update_last_updated_uncompared(h, current, new_last_updated) ==
    IF current = None THEN h
    ELSE [h EXCEPT ![current]._last_updated = new_last_updated]

RECURSIVE _update_last_updated(_, _, _)
_update_last_updated(h, current, new_last_updated) ==
    IF current = None \/ h[current]._last_updated >= new_last_updated
    THEN h
    ELSE _update_last_updated(
             [h EXCEPT ![current]._last_updated = new_last_updated],
             h[current]._parent, new_last_updated)

\* The object at which the walk of _update_last_updated ends (None: past the root)
RECURSIVE WalkStop(_, _, _)
WalkStop(h, current, new_last_updated) ==
    IF current = None \/ h[current]._last_updated >= new_last_updated
    THEN current
    ELSE WalkStop([h EXCEPT ![current]._last_updated = new_last_updated],
                  h[current]._parent, new_last_updated)

\* _add_child() that does not set the parent
_add_child_no_parent(h, self, child, t) ==
    IF child = None THEN h ELSE _update_last_updated(h, child, t)

\* _add_child() that leaves the parent of a child that has one
_add_child_keep_parent(h, self, child, t) ==
    IF child = None THEN h
    ELSE _update_last_updated(
             [h EXCEPT ![child]._parent = IF @ = None THEN self ELSE @], child, t)

_add_child(h, self, child, t) ==
    IF child = None THEN h
    ELSE _update_last_updated([h EXCEPT ![child]._parent = self], child, t)

\* _remove_child() that leaves the parent of the child
_remove_child_keep_parent(h, self, child, t) ==
    IF child = None THEN h ELSE _update_last_updated(h, self, t)

_remove_child(h, self, child, t) ==
    IF child = None THEN h
    ELSE _update_last_updated([h EXCEPT ![child]._parent = None], self, t)

\* Wrappers no container holds any more are reclaimed
Referenced(h) == UNION {Range(h[n]._contents) : n \in Live(h)}
Collect(h) == [n \in Nodes |->
                 IF h[n].cls = WrapperCls /\ n \notin Referenced(h) THEN FreeNode ELSE h[n]]

\* datetime objects: the reading of the wall clock and the zone (NaiveTz: no tzinfo)
NaiveTz == ""
Datetime(wall, tzinfo) == [wall |-> wall, tzinfo |-> tzinfo]
\* timestamp=None, the default of commit()
NoTimestamp == Datetime(0, "None")
NoEntry == [id |-> None, message |-> "", timestamp |-> Datetime(0, NaiveTz)]
NoRet == [op |-> "", db |-> "", id |-> None, message |-> "", start |-> <<>>,
          end |-> <<>>, status |-> "", class_name |-> "", count |-> 0,
          timestamp |-> NoTimestamp,
          entry |-> NoEntry, data |-> NoValue, entries |-> <<>>,
          self |-> None, obj |-> None, error |-> "", initialized |-> TRUE,
          name |-> "", kind |-> "", other |-> NoValue, equal |-> FALSE,
          index |-> 0, time |-> 0]
Idle == [pc |-> "idle", db |-> "", start |-> <<>>, end |-> <<>>, num_commits |-> 0,
         with_data |-> FALSE]
NoOp == [name |-> "", target |-> None, start |-> 0,
         node |-> None, new |-> 0, stop |-> None]

Init ==
    /\ heap = [n \in Nodes |-> FreeNode]
    /\ now = 1
    /\ last = NoOp
    /\ steps = 0
    /\ log = <<>>
    /\ ret = NoRet
    /\ hist = Idle
    /\ returned = <<>>
    /\ _param_classes = {ListCls, DictCls, StructCls}

(* ---------------------------------------------------------------------- *)
(* ParamList                                                               *)
(* ---------------------------------------------------------------------- *)
\* wrapped_initial_contents = [self._wrap_child(item) for item in initial_contents]
RECURSIVE WrapAll(_, _, _, _)
WrapAll(h, items, reads, i) ==
    IF i > Len(items) THEN [heap |-> h, children |-> <<>>]
    ELSE LET w == _wrap_child(h, items[i], reads[i])
             rest == WrapAll(w.heap, items, reads, i + 1)
         IN [heap |-> rest.heap, children |-> <<w.child>> \o rest.children]

\* A constructor that keeps its initial contents without processing them
AddAll_unprocessed(h, self, children, reads, i) == h

\* for wrapped_item in wrapped_values: self._add_child(wrapped_item)
RECURSIVE AddAll(_, _, _, _, _)
AddAll(h, self, children, reads, i) ==
    IF i > Len(children) THEN h
    ELSE AddAll(_add_child(h, self, children[i], reads[i]), self, children, reads, i + 1)

\* for old_wrapped_item in old_wrapped_values: self._remove_child(old_wrapped_item)
RECURSIVE RemoveAll(_, _, _, _, _)
RemoveAll(h, self, children, reads, i) ==
    IF i > Len(children) THEN h
    ELSE RemoveAll(_remove_child(h, self, children[i], reads[i]), self, children, reads, i + 1)

PlainCount(items) == Cardinality({i \in DOMAIN items : items[i].n = None})
Shift(s, k) == [i \in 1..(Len(s) - k) |-> s[i + k]]

\* ParamData.parent: the parent, or the ValueError raised when _parent is None
NoParent == "object has no parent, or its parent has not been initialized yet"
parent(h, self) ==
    IF h[self]._parent = None
    THEN [status |-> "ValueError", error |-> NoParent, obj |-> None]
    ELSE [status |-> "ok", error |-> "", obj |-> h[self]._parent]

\* A root that is the parent
root_one_level(h, n) == IF h[n]._parent = None THEN n ELSE h[n]._parent

\* ParamData.root
RECURSIVE root(_, _)
root(h, n) == IF h[n]._parent = None THEN n ELSE root(h, h[n]._parent)

\* The values the application stores into container self (None: into a container under
\* construction): a plain value, or a container that no container holds and that is
\* not the root of self, so that the objects form a forest
GraphValues(h, self) ==
    {NodeValue(n) : n \in {m \in Live(h) : /\ IsContainer(h, m)
                                           /\ m \notin Referenced(h)
                                           /\ self # None => m # root(h, self)}}
        \cup {PlainValue(p) : p \in GraphPlain}
DBPlain == {DEFAULT_NUMBER, NotJSONSerializable,
            PyDict(<<Item("1", "int", DEFAULT_NUMBER)>>)}
DBValues(h, self) ==
    {NodeValue(n) : n \in {m \in Live(h) : /\ IsContainer(h, m)
                                           /\ m \notin Referenced(h)
                                           /\ self # None => m # root(h, self)}}
        \cup {PlainValue(p) : p \in DBPlain}
Distinct(items) == \A i, j \in DOMAIN items :
                      i # j /\ items[i].n # None => items[i].n # items[j].n
DBItems(h) == {<<>>} \cup {<<value>> : value \in DBValues(h, None)}
ValueSeqs(h, self, maxlen) ==
    {items \in UNION {[1..k -> GraphValues(h, self)] : k \in 0..maxlen} : Distinct(items)}

\* ParamList(iterable)
ParamList__init__(items) ==
    /\ Cardinality(FreeIds(heap)) >= 1 + PlainCount(items)
    /\ \E reads \in ClockReads(1 + 2 * Len(items)) :
         LET self == Alloc(heap)
             h0 == ParamData__init__(heap, self, ListCls, reads[1])
             w == WrapAll(h0, items, Shift(reads, 1), 1)
             h1 == AddAll(w.heap, self, w.children, Shift(reads, 1 + Len(items)), 1)
             h2 == [h1 EXCEPT ![self]._contents = w.children]
         IN /\ heap' = Collect(h2)
            /\ now' = reads[Len(reads)]
            /\ last' = [NoOp EXCEPT !.name = "ParamList"]

\* The last call of _update_last_updated made by an operation
Walk(h, node, t) == [node |-> node, new |-> t, stop |-> WalkStop(h, node, t)]
AddWalk(h, self, child, t) == Walk([h EXCEPT ![child]._parent = self], child, t)
RemoveWalk(h, self, child, t) == Walk([h EXCEPT ![child]._parent = None], self, t)
Done(name, target, start, walk) ==
    [name |-> name, target |-> target, start |-> start,
     node |-> walk.node, new |-> walk.new, stop |-> walk.stop]

Lists(h) == {n \in Live(h) : h[n].cls = ListCls}
Dicts(h) == {n \in Live(h) : h[n].cls = DictCls}
Structs(h) == {n \in Live(h) : h[n].cls = StructCls}

\* ParamList.__setitem__(index, value), index an integer in range
ParamList__setitem__(self, index, value) ==
    /\ self \in Lists(heap) /\ index \in DOMAIN heap[self]._contents
    /\ Cardinality(FreeIds(heap)) >= PlainCount(<<value>>)
    /\ \E reads \in ClockReads(3) :
         LET old_wrapped_value == heap[self]._contents[index]
             w == _wrap_child(heap, value, reads[1])
             h1 == [w.heap EXCEPT ![self]._contents[index] = w.child]
             h2 == _remove_child(h1, self, old_wrapped_value, reads[2])
             h3 == _add_child(h2, self, w.child, reads[3])
         IN /\ heap' = Collect(h3)
            /\ now' = reads[3]
            /\ last' = Done("setitem", self,
                            IF value.n = None THEN reads[1] ELSE reads[2],
                            AddWalk(h2, self, w.child, reads[3]))

\* ParamList.__setitem__(slice(lo - 1, hi), values): the items lo..hi are replaced
ParamList__setitem__slice(self, lo, hi, values) ==
    /\ self \in Lists(heap)
    /\ lo \in 1..(Len(heap[self]._contents) + 1)
    /\ hi \in (lo - 1)..Len(heap[self]._contents)
    /\ Len(heap[self]._contents) - (hi - lo + 1) + Len(values) <= MaxLen
    /\ Cardinality(FreeIds(heap)) >= PlainCount(values)
    /\ \E reads \in ClockReads(2 * Len(values) + (hi - lo + 1)) :
         LET contents == heap[self]._contents
             nv == Len(values)
             no == hi - lo + 1
             old_wrapped_values == SubSeq(contents, lo, hi)
             w == WrapAll(heap, values, reads, 1)
             h1 == [w.heap EXCEPT ![self]._contents =
                       SubSeq(contents, 1, lo - 1) \o w.children
                           \o SubSeq(contents, hi + 1, Len(contents))]
             h2 == RemoveAll(h1, self, old_wrapped_values, Shift(reads, nv), 1)
             h3 == AddAll(h2, self, w.children, Shift(reads, nv + no), 1)
             hb == AddAll(h2, self, SubSeq(w.children, 1, nv - 1), Shift(reads, nv + no), 1)
             ha == RemoveAll(h1, self, SubSeq(old_wrapped_values, 1, no - 1),
                             Shift(reads, nv), 1)
         IN /\ nv + no > 0
            /\ heap' = Collect(h3)
            /\ now' = reads[Len(reads)]
            /\ last' = Done("setslice", self,
                            IF PlainCount(values) > 0 THEN reads[1] ELSE reads[nv + 1],
                            IF nv > 0
                            THEN AddWalk(hb, self, w.children[nv], reads[Len(reads)])
                            ELSE RemoveWalk(ha, self, old_wrapped_values[no],
                                            reads[Len(reads)]))

\* ParamList.__delitem__(index), index an integer in range
ParamList__delitem__(self, index) ==
    /\ self \in Lists(heap) /\ index \in DOMAIN heap[self]._contents
    /\ \E reads \in ClockReads(1) :
         LET contents == heap[self]._contents
             old_wrapped_value == contents[index]
             h1 == [heap EXCEPT ![self]._contents =
                       SubSeq(contents, 1, index - 1)
                           \o SubSeq(contents, index + 1, Len(contents))]
             h2 == _remove_child(h1, self, old_wrapped_value, reads[1])
         IN /\ heap' = Collect(h2)
            /\ now' = reads[1]
            /\ last' = Done("delitem", self, reads[1],
                            RemoveWalk(h1, self, old_wrapped_value, reads[1]))

\* ParamList.insert(index, value): the value becomes item index + 1 (append: index = len)
ParamList_insert(self, index, value) ==
    /\ self \in Lists(heap) /\ index \in 0..Len(heap[self]._contents)
    /\ Len(heap[self]._contents) < MaxLen
    /\ Cardinality(FreeIds(heap)) >= PlainCount(<<value>>)
    /\ \E reads \in ClockReads(2) :
         LET contents == heap[self]._contents
             w == _wrap_child(heap, value, reads[1])
             h1 == [w.heap EXCEPT ![self]._contents =
                       SubSeq(contents, 1, index) \o <<w.child>>
                           \o SubSeq(contents, index + 1, Len(contents))]
             h2 == _add_child(h1, self, w.child, reads[2])
         IN /\ heap' = Collect(h2)
            /\ now' = reads[2]
            /\ last' = Done("insert", self,
                            IF value.n = None THEN reads[1] ELSE reads[2],
                            AddWalk(h1, self, w.child, reads[2]))

(* ---------------------------------------------------------------------- *)
(* ParamDict                                                               *)
(* ---------------------------------------------------------------------- *)
KeySeqs(k) == {s \in [1..k -> Keys] : \A i, j \in 1..k : i # j => s[i] # s[j]}
IndexOf(keys, key) == CHOOSE i \in DOMAIN keys : keys[i] = key

\* ParamDict(mapping): the mapping has the keys ks, in order, with the values items
ParamDict__init__(ks, items) ==
    /\ Len(ks) = Len(items)
    /\ Cardinality(FreeIds(heap)) >= 1 + PlainCount(items)
    /\ \E reads \in ClockReads(1 + 2 * Len(items)) :
         LET self == Alloc(heap)
             h0 == ParamData__init__(heap, self, DictCls, reads[1])
             w == WrapAll(h0, items, Shift(reads, 1), 1)
             h1 == [w.heap EXCEPT ![self].keys = ks, ![self]._contents = w.children]
             h2 == AddAll(h1, self, w.children, Shift(reads, 1 + Len(items)), 1)
         IN /\ heap' = Collect(h2)
            /\ now' = reads[Len(reads)]
            /\ last' = [NoOp EXCEPT !.name = "ParamDict"]

\* ParamDict.__setitem__(key, value)
ParamDict__setitem__(self, key, value) ==
    /\ self \in Dicts(heap)
    /\ key \in Range(heap[self].keys) \/ Len(heap[self].keys) < MaxLen
    /\ Cardinality(FreeIds(heap)) >= PlainCount(<<value>>)
    /\ \E reads \in ClockReads(3) :
         LET present == key \in Range(heap[self].keys)
             old_wrapped_value ==
                 IF present THEN heap[self]._contents[IndexOf(heap[self].keys, key)]
                 ELSE None
             w == _wrap_child(heap, value, reads[1])
             h1 == IF present
                   THEN [w.heap EXCEPT
                            ![self]._contents[IndexOf(heap[self].keys, key)] = w.child]
                   ELSE [w.heap EXCEPT ![self].keys = Append(@, key),
                                       ![self]._contents = Append(@, w.child)]
             h2 == _remove_child(h1, self, old_wrapped_value, reads[2])
             h3 == _add_child(h2, self, w.child, reads[3])
         IN /\ heap' = Collect(h3)
            /\ now' = reads[3]
            /\ last' = Done(IF present THEN "setkey" ELSE "newkey", self,
                            IF value.n = None THEN reads[1]
                            ELSE IF present THEN reads[2] ELSE reads[3],
                            AddWalk(h2, self, w.child, reads[3]))

\* ParamDict.__delitem__(key), key present
ParamDict__delitem__(self, key) ==
    /\ self \in Dicts(heap) /\ key \in Range(heap[self].keys)
    /\ \E reads \in ClockReads(1) :
         LET i == IndexOf(heap[self].keys, key)
             ks == heap[self].keys
             contents == heap[self]._contents
             old_wrapped_value == contents[i]
             h1 == [heap EXCEPT
                      ![self].keys = SubSeq(ks, 1, i - 1) \o SubSeq(ks, i + 1, Len(ks)),
                      ![self]._contents =
                          SubSeq(contents, 1, i - 1) \o SubSeq(contents, i + 1, Len(contents))]
             h2 == _remove_child(h1, self, old_wrapped_value, reads[1])
         IN /\ heap' = Collect(h2)
            /\ now' = reads[1]
            /\ last' = Done("delkey", self, reads[1],
                            RemoveWalk(h1, self, old_wrapped_value, reads[1]))

(* ---------------------------------------------------------------------- *)
(* ParamDataclass (SimpleParam, type validation disabled)                  *)
(* ---------------------------------------------------------------------- *)
FieldNames == [i \in DOMAIN SimpleParamFields |-> SimpleParamFields[i].name]

\* ParamDataclass.__setattr__(name, value) for the field at position i; old is the
\* value the attribute had (None when it was not a ParamData object)
ParamDataclass__setattr__(h, self, i, old_wrapped_value, value, reads) ==
    LET w == _wrap_child(h, value, reads[1])
        h1 == [w.heap EXCEPT ![self]._contents[i] = w.child]
        h2 == _remove_child(h1, self, old_wrapped_value, reads[2])
    IN [heap |-> _add_child(h2, self, w.child, reads[3]),
        walk |-> AddWalk(h2, self, w.child, reads[3])]

\* ParamDataclass.__post_init__ for the field at position i, whose attribute holds
\* value (the wrapped child __setattr__ stored, or the plain class default)
ParamDataclass__post_init__(h, self, i, value, reads) ==
    LET w == _wrap_child(h, value, reads[1])
        h1 == [w.heap EXCEPT ![self]._contents[i] = w.child]
    IN _add_child(h1, self, w.child, reads[2])

\* SimpleParam(number=value): __new__, the generated __init__ (which assigns the
\* init fields only), then __post_init__ over all fields
SimpleParam__init__(value) ==
    /\ Cardinality(FreeIds(heap)) >= 2 + PlainCount(<<value>>)
    /\ \E reads \in ClockReads(6) :
         LET self == Alloc(heap)
             h0 == [ParamData__init__(heap, self, StructCls, reads[1]) EXCEPT
                      ![self].keys = FieldNames,
                      ![self]._contents = [i \in DOMAIN FieldNames |-> None]]
             s1 == ParamDataclass__setattr__(h0, self, 1, None, value,
                                             <<reads[2], reads[2], reads[3]>>)
             h2 == ParamDataclass__post_init__(s1.heap, self, 1,
                       NodeValue(s1.heap[self]._contents[1]), <<reads[4], reads[4]>>)
             h3 == ParamDataclass__post_init__(h2, self, 2, PlainValue(DEFAULT_NUMBER),
                                               <<reads[5], reads[6]>>)
         IN /\ heap' = Collect(h3)
            /\ now' = reads[6]
            /\ last' = [NoOp EXCEPT !.name = "SimpleParam"]

\* obj.name = value for the declared field at position i
SimpleParam__setattr__(self, i, value) ==
    /\ self \in Structs(heap) /\ i \in DOMAIN FieldNames
    /\ Cardinality(FreeIds(heap)) >= PlainCount(<<value>>)
    /\ \E reads \in ClockReads(3) :
         LET s1 == ParamDataclass__setattr__(heap, self, i, heap[self]._contents[i],
                                             value, reads)
         IN /\ heap' = Collect(s1.heap)
            /\ now' = reads[3]
            /\ last' = Done("setattr", self,
                            IF value.n = None THEN reads[1] ELSE reads[2], s1.walk)

Step == steps < MaxOps /\ steps' = steps + 1 /\ UNCHANGED _param_classes
\* ret and last hold what the last operation did
GraphStep == Step /\ ret' = NoRet /\ UNCHANGED <<log, hist, returned>>

NextGraph ==
    \/ GraphStep /\ \E items \in ValueSeqs(heap, None, MaxInit) : ParamList__init__(items)
    \/ GraphStep /\ \E self \in Nodes, index \in 1..MaxLen :
         \E value \in GraphValues(heap, self) : ParamList__setitem__(self, index, value)
    \/ GraphStep /\ \E self \in Nodes, lo \in 1..(MaxLen + 1), hi \in 0..MaxLen :
         \E values \in ValueSeqs(heap, self, MaxInit) :
            ParamList__setitem__slice(self, lo, hi, values)
    \/ GraphStep /\ \E self \in Nodes, index \in 1..MaxLen : ParamList__delitem__(self, index)
    \/ GraphStep /\ \E self \in Nodes, index \in 0..MaxLen :
         \E value \in GraphValues(heap, self) : ParamList_insert(self, index, value)
    \/ GraphStep /\ \E k \in 0..MaxInit : \E ks \in KeySeqs(k), items \in ValueSeqs(heap, None, k) :
         ParamDict__init__(ks, items)
    \/ GraphStep /\ \E self \in Nodes, key \in Keys :
         \E value \in GraphValues(heap, self) : ParamDict__setitem__(self, key, value)
    \/ GraphStep /\ \E self \in Nodes, key \in Keys : ParamDict__delitem__(self, key)
    \/ GraphStep /\ \E value \in GraphValues(heap, None) : SimpleParam__init__(value)
    \/ GraphStep /\ \E self \in Nodes, i \in DOMAIN FieldNames :
         \E value \in GraphValues(heap, self) : SimpleParam__setattr__(self, i, value)

SpecGraph == Init /\ [][NextGraph]_vars

\* A slice that takes the items over: the copy becomes their parent
ParamList__getitem__slice_adopting(self, lo, hi) ==
    /\ self \in Lists(heap)
    /\ lo \in 1..(Len(heap[self]._contents) + 1)
    /\ hi \in (lo - 1)..Len(heap[self]._contents)
    /\ FreeIds(heap) # {}
    /\ LET self_copy == Alloc(heap)
           items == SubSeq(heap[self]._contents, lo, hi)
       IN heap' = [n \in Nodes |->
                     IF n = self_copy THEN [heap[self] EXCEPT !._contents = items]
                     ELSE IF n \in Range(items) THEN [heap[n] EXCEPT !._parent = self_copy]
                     ELSE heap[n]]
    /\ now' = now
    /\ last' = [NoOp EXCEPT !.name = "getslice"]

\* ParamList.__getitem__(slice(lo - 1, hi)): a copy of the list with the items lo..hi
ParamList__getitem__slice(self, lo, hi) ==
    /\ self \in Lists(heap)
    /\ lo \in 1..(Len(heap[self]._contents) + 1)
    /\ hi \in (lo - 1)..Len(heap[self]._contents)
    /\ FreeIds(heap) # {}
    /\ LET self_copy == Alloc(heap)
       IN heap' = [heap EXCEPT ![self_copy] =
                     [heap[self] EXCEPT !._contents = SubSeq(heap[self]._contents, lo, hi)]]
    /\ now' = now
    /\ last' = [NoOp EXCEPT !.name = "getslice"]

\* The objects n holds, directly or through the objects it holds
RECURSIVE Below(_, _)
Below(h, n) ==
    LET held == Range(h[n]._contents) \ {None}
    IN held \cup UNION {Below(h, m) : m \in held}

\* The values the application stores into container self when an object may be stored
\* into several containers: a plain value, or any container that does not hold self
SharedValues(h, self) ==
    {NodeValue(n) : n \in {m \in Live(h) : /\ IsContainer(h, m)
                                           /\ self # None =>
                                                 m # self /\ self \notin Below(h, m)}}
        \cup {PlainValue(p) : p \in GraphPlain}
SharedItems(h) == {<<>>} \cup {<<value>> : value \in SharedValues(h, None)}

\* Objects are stored into more than one container, and lists are sliced
ShareStep == /\ steps < MaxShareOps /\ steps' = steps + 1 /\ ret' = NoRet
             /\ UNCHANGED <<log, hist, returned, _param_classes>>
NextShare ==
    \/ ShareStep /\ \E items \in SharedItems(heap) : ParamList__init__(items)
    \/ ShareStep /\ \E self \in Nodes, index \in 1..MaxLen :
         \E value \in SharedValues(heap, self) : ParamList__setitem__(self, index, value)
    \/ ShareStep /\ \E self \in Nodes, index \in 1..MaxLen : ParamList__delitem__(self, index)
    \/ ShareStep /\ \E self \in Nodes, index \in 0..MaxLen :
         \E value \in SharedValues(heap, self) : ParamList_insert(self, index, value)
    \/ ShareStep /\ \E self \in Nodes, lo \in 1..(MaxLen + 1), hi \in 0..MaxLen :
         ParamList__getitem__slice(self, lo, hi)
    \/ ShareStep /\ \E items \in SharedItems(heap) :
         ParamDict__init__(CHOOSE ks \in KeySeqs(Len(items)) : TRUE, items)
    \/ ShareStep /\ \E self \in Nodes, key \in Keys :
         \E value \in SharedValues(heap, self) : ParamDict__setitem__(self, key, value)
    \/ ShareStep /\ \E self \in Nodes, key \in Keys : ParamDict__delitem__(self, key)
    \/ ShareStep /\ \E value \in SharedValues(heap, None) : SimpleParam__init__(value)
    \/ ShareStep /\ \E self \in Nodes, i \in DOMAIN FieldNames :
         \E value \in SharedValues(heap, self) : SimpleParam__setattr__(self, i, value)

SpecShare == Init /\ [][NextShare]_vars

\* Lists are built from objects and plain values, changed and sliced; slices are sliced
SliceStep == /\ steps < MaxSliceOps /\ steps' = steps + 1 /\ ret' = NoRet
             /\ UNCHANGED <<log, hist, returned, _param_classes>>
NextSlice ==
    \/ SliceStep /\ \E items \in SharedItems(heap) : ParamList__init__(items)
    \/ SliceStep /\ \E self \in Nodes, index \in 1..MaxLen :
         \E value \in SharedValues(heap, self) : ParamList__setitem__(self, index, value)
    \/ SliceStep /\ \E self \in Nodes, lo \in 1..(MaxLen + 1), hi \in 0..MaxLen :
         ParamList__getitem__slice(self, lo, hi)

SpecSlice == Init /\ [][NextSlice]_vars

\* Lists are built from plain values and from objects that no list holds yet, sliced,
\* and the objects they hold are changed afterwards: only a slice holds an object
\* that another list holds
NextSublist ==
    \/ SliceStep /\ \E items \in {<<>>} \cup {<<value>> : value \in GraphValues(heap, None)} :
         ParamList__init__(items)
    \/ SliceStep /\ \E self \in Nodes, lo \in 1..(MaxLen + 1), hi \in 0..MaxLen :
         ParamList__getitem__slice(self, lo, hi)
    \/ SliceStep /\ \E self \in Nodes, index \in 1..MaxLen :
         \E value \in {PlainValue(p) : p \in GraphPlain} :
            ParamList__setitem__(self, index, value)
    \/ SliceStep /\ \E self \in Nodes, index \in 0..MaxLen :
         \E value \in {PlainValue(p) : p \in GraphPlain} :
            ParamList_insert(self, index, value)

SpecSublist == Init /\ [][NextSublist]_vars

(* ---------------------------------------------------------------------- *)
(* Objects with stored timestamps                                          *)
(* ---------------------------------------------------------------------- *)
\* ParamList.from_json(json_data, last_updated_timestamp): __new__, then __init__ with
\* _last_updated_frozen set, which stamps the new wrappers only, then the stored
\* timestamp, whatever the clock says
ParamList_from_json(items, last_updated_timestamp) ==
    /\ Cardinality(FreeIds(heap)) >= 1 + PlainCount(items)
    /\ \E reads \in ClockReads(Len(items)) :
         LET self == Alloc(heap)
             h0 == ParamData__init__(heap, self, ListCls, 0)
             w == WrapAll(h0, items, reads, 1)
             h1 == [n \in Nodes |->
                      IF n \in Range(w.children)
                      THEN [w.heap[n] EXCEPT !._parent = self] ELSE w.heap[n]]
             h2 == [h1 EXCEPT ![self]._contents = w.children,
                              ![self]._last_updated = last_updated_timestamp]
         IN /\ heap' = Collect(h2)
            /\ now' = IF reads = <<>> THEN now ELSE reads[Len(reads)]
            /\ last' = [NoOp EXCEPT !.name = "from_json"]

\* Lists are loaded with timestamps of any time, then changed
NextLoaded ==
    \/ ShareStep /\ \E items \in {<<>>} \cup {<<value>> : value \in GraphValues(heap, None)} :
         \E last_updated_timestamp \in 1..MaxClock :
            ParamList_from_json(items, last_updated_timestamp)
    \/ ShareStep /\ \E self \in Nodes, index \in 1..MaxLen :
         \E value \in GraphValues(heap, self) : ParamList__setitem__(self, index, value)
    \/ ShareStep /\ \E self \in Nodes, index \in 1..MaxLen : ParamList__delitem__(self, index)
    \/ ShareStep /\ \E self \in Nodes, index \in 0..MaxLen :
         \E value \in GraphValues(heap, self) : ParamList_insert(self, index, value)

SpecLoaded == Init /\ [][NextLoaded]_vars
(* ---------------------------------------------------------------------- *)
(* The codec of the database: _encode_json, _decode_json, from_json        *)
(* ---------------------------------------------------------------------- *)
ParamClasses == {WrapperCls, ListCls, DictCls, StructCls}
IsParamData(x) == x.t \in ParamClasses            \* isinstance(x, ParamData)

\* The object n of the heap with everything it holds, as a Python value
RECURSIVE Obj(_, _)
Obj(h, n) ==
    [t |-> h[n].cls, v |-> "", lu |-> h[n]._last_updated,
     items |-> IF h[n].cls = WrapperCls
               THEN <<Item("", "", h[n].value)>>
               ELSE [i \in DOMAIN h[n]._contents |->
                       Item(IF h[n].cls = ListCls THEN "" ELSE h[n].keys[i],
                            IF h[n].cls = ListCls THEN "" ELSE "str",
                            Obj(h, h[n]._contents[i]))]]

SelectItems(items, idx) ==
    LET RECURSIVE Sel(_)
        Sel(i) == IF i > Len(items) THEN <<>>
                  ELSE (IF i \in idx THEN <<items[i]>> ELSE <<>>) \o Sel(i + 1)
    IN Sel(1)

IsInitField(name) == \E i \in DOMAIN SimpleParamFields :
                        SimpleParamFields[i].name = name /\ SimpleParamFields[i].init

\* A to_json() that gives every field of a data class, with the values as they are read
to_json_unwrapped(obj) ==
    IF obj.t = WrapperCls THEN obj.items[1].x
    ELSE IF obj.t = ListCls THEN [t |-> "list", v |-> "", lu |-> 0, items |-> obj.items]
    ELSE IF obj.t = DictCls THEN PyDict(obj.items)
    ELSE PyDict([i \in DOMAIN obj.items |->
                   Item(obj.items[i].k, obj.items[i].kt,
                        IF obj.items[i].x.t = WrapperCls
                        THEN obj.items[i].x.items[1].x ELSE obj.items[i].x)])
\* to_json() of _ParamWrapper, _ParamCollection and ParamDataclass
to_json(obj) ==
    IF obj.t = WrapperCls THEN obj.items[1].x
    ELSE IF obj.t = ListCls THEN [t |-> "list", v |-> "", lu |-> 0, items |-> obj.items]
    ELSE IF obj.t = DictCls THEN PyDict(obj.items)
    ELSE PyDict(SelectItems(obj.items,
                            {i \in DOMAIN obj.items : IsInitField(obj.items[i].k)}))

\* datetime.timestamp() and datetime.fromtimestamp(): a datetime counts microseconds,
\* a timestamp has seconds and a fraction
MicrosPerSecond == 1000000
timestamp(dt) == [s |-> dt \div MicrosPerSecond, us |-> dt % MicrosPerSecond]
fromtimestamp(ts) == ts.s * MicrosPerSecond + ts.us

TypeError == [raise |-> "TypeError"]
ValueError(class_name) == [raise |-> "ValueError", class_name |-> class_name]
IsRaise(j) == "raise" \in DOMAIN j

RECURSIVE _encode_json(_)
_encode_json(obj) ==
    IF obj.t \in {"int", "float", "bool", "str", "NoneType"} THEN obj
    ELSE IF obj.t \in {"list", "tuple"}
    THEN LET data == [i \in DOMAIN obj.items |-> _encode_json(obj.items[i].x)]
         IN IF \E i \in DOMAIN data : IsRaise(data[i]) THEN TypeError
            ELSE [type |-> "list", data |-> data]
    ELSE IF obj.t = "dict"
    THEN LET data == [i \in DOMAIN obj.items |->
                        Item(obj.items[i].k, obj.items[i].kt,
                             _encode_json(obj.items[i].x))]
         IN IF \E i \in DOMAIN data : IsRaise(data[i].x) THEN TypeError
            ELSE [type |-> "dict", data |-> data]
    ELSE IF IsParamData(obj)
    THEN LET data == _encode_json(to_json(obj))
         IN IF IsRaise(data) THEN TypeError
            ELSE IF obj.t = WrapperCls
            THEN [type |-> "ParamData", lastUpdated |-> timestamp(obj.lu),
                  data |-> <<data>>]
            ELSE [type |-> "ParamData", className |-> obj.t,
                  lastUpdated |-> timestamp(obj.lu), data |-> <<data>>]
    ELSE TypeError

\* json.dumps() and json.loads(): in the text of a JSON value the keys of every
\* object are strings, whatever the type of the key of the dict was
RECURSIVE JsonText(_)
JsonText(j) ==
    IF "type" \notin DOMAIN j THEN j
    ELSE IF j.type = "dict"
    THEN [j EXCEPT !.data = [i \in DOMAIN j.data |->
                               Item(j.data[i].k, "str", JsonText(j.data[i].x))]]
    ELSE [j EXCEPT !.data = [i \in DOMAIN j.data |-> JsonText(j.data[i])]]
json_dumps(j) == [text |-> JsonText(j)]
\* json.loads raises JSONDecodeError for a string that is no JSON document
JSONDecodeError == [raise |-> "JSONDecodeError", class_name |-> ""]
json_loads(json_str) ==
    IF "text" \in DOMAIN json_str THEN json_str.text ELSE JSONDecodeError

_compress(text) == [zstd |-> text]
_decompress(compressed_text) == compressed_text.zstd

\* _encode() that stores null for an object _encode_json() cannot encode
_encode_null(obj) ==
    LET j == _encode_json(obj)
    IN _compress(json_dumps(IF IsRaise(j) THEN Scalar("NoneType", "None") ELSE j))

\* _encode(obj, raw_json=False)
_encode(obj) ==
    LET j == _encode_json(obj)
    IN IF IsRaise(j) THEN j ELSE _compress(json_dumps(j))

\* _wrap_child() while an object is rebuilt: an item that is no ParamData object gets
\* a new wrapper, created at time t
WrapValue(x, t) ==
    IF IsParamData(x) THEN x
    ELSE [t |-> WrapperCls, v |-> "", lu |-> t, items |-> <<Item("", "", x)>>]

HasKey(items, k) == \E i \in DOMAIN items : items[i].k = k
Lookup(items, k) == items[CHOOSE i \in DOMAIN items : items[i].k = k].x

\* from_json() without the last line, which restores _last_updated
from_json_not_restored(cls, json_data, last_updated_timestamp, t) ==
    IF cls = WrapperCls
    THEN [t |-> cls, v |-> "", lu |-> t, items |-> <<Item("", "", json_data)>>]
    ELSE IF cls \in {ListCls, DictCls}
    THEN [t |-> cls, v |-> "", lu |-> t,
          items |-> [i \in DOMAIN json_data.items |->
                       Item(json_data.items[i].k, json_data.items[i].kt,
                            WrapValue(json_data.items[i].x, t))]]
    ELSE [t |-> cls, v |-> "", lu |-> t,
          items |-> [i \in DOMAIN SimpleParamFields |->
                       Item(SimpleParamFields[i].name, "str",
                            IF SimpleParamFields[i].init
                            THEN Lookup(json_data.items, SimpleParamFields[i].name)
                            ELSE WrapValue(DEFAULT_NUMBER, t))]]

\* ParamData.from_json(json_data, last_updated_timestamp) of class cls, at time t:
\* _init_from_json() with _last_updated_frozen set, then _last_updated is restored
from_json(cls, json_data, last_updated_timestamp, t) ==
    LET last_updated == fromtimestamp(last_updated_timestamp)
    IN IF cls = WrapperCls
       THEN [t |-> cls, v |-> "", lu |-> last_updated,
             items |-> <<Item("", "", json_data)>>]
       ELSE IF cls \in {ListCls, DictCls}
       THEN [t |-> cls, v |-> "", lu |-> last_updated,
             items |-> [i \in DOMAIN json_data.items |->
                          Item(json_data.items[i].k, json_data.items[i].kt,
                               WrapValue(json_data.items[i].x, t))]]
       ELSE [t |-> cls, v |-> "", lu |-> last_updated,
             items |-> [i \in DOMAIN SimpleParamFields |->
                          Item(SimpleParamFields[i].name, "str",
                               IF SimpleParamFields[i].init
                               THEN Lookup(json_data.items, SimpleParamFields[i].name)
                               ELSE WrapValue(DEFAULT_NUMBER, t))]]

\* The exception of a comprehension is the one its first failing item raises
FirstRaise(xs) == CHOOSE i \in DOMAIN xs :
                     IsRaise(xs[i]) /\ \A j \in 1..(i - 1) : ~IsRaise(xs[j])

\* _decode_json() that gives the data of an object of a class it does not know
RECURSIVE _decode_json_unknown_as_data(_, _)
_decode_json_unknown_as_data(json_data, t) ==
    IF "type" \notin DOMAIN json_data THEN json_data
    ELSE IF json_data.type = "list"
    THEN PyList([i \in DOMAIN json_data.data |->
                   _decode_json_unknown_as_data(json_data.data[i], t)])
    ELSE IF json_data.type = "dict"
    THEN PyDict([i \in DOMAIN json_data.data |->
                   Item(json_data.data[i].k, json_data.data[i].kt,
                        _decode_json_unknown_as_data(json_data.data[i].x, t))])
    ELSE IF json_data.type = "ParamData"
    THEN LET param_class == IF "className" \notin DOMAIN json_data THEN WrapperCls
                            ELSE json_data.className
             data == _decode_json_unknown_as_data(json_data.data[1], t)
         IN IF param_class # WrapperCls /\ param_class \notin _param_classes
            THEN data
            ELSE from_json(param_class, data, json_data.lastUpdated, t)
    ELSE json_data

RECURSIVE _decode_json(_, _)
_decode_json(json_data, t) ==
    IF "type" \notin DOMAIN json_data THEN json_data
    ELSE IF json_data.type = "list"
    THEN LET xs == [i \in DOMAIN json_data.data |-> _decode_json(json_data.data[i], t)]
         IN IF \E i \in DOMAIN xs : IsRaise(xs[i])
            THEN xs[FirstRaise(xs)] ELSE PyList(xs)
    ELSE IF json_data.type = "dict"
    THEN LET items == [i \in DOMAIN json_data.data |->
                         Item(json_data.data[i].k, json_data.data[i].kt,
                              _decode_json(json_data.data[i].x, t))]
         IN IF \E i \in DOMAIN items : IsRaise(items[i].x)
            THEN items[FirstRaise([i \in DOMAIN items |-> items[i].x])].x
            ELSE PyDict(items)
    ELSE IF json_data.type = "ParamData"
    THEN LET param_class == IF "className" \notin DOMAIN json_data THEN WrapperCls
                            ELSE json_data.className
             data == _decode_json(json_data.data[1], t)
         IN IF param_class # WrapperCls /\ param_class \notin _param_classes
            THEN ValueError(param_class)
            ELSE IF IsRaise(data) THEN data
            ELSE from_json(param_class, data, json_data.lastUpdated, t)
    ELSE json_data

\* _decode(data, raw_json=False)
_decode(data, t) == _decode_json(json_loads(_decompress(data)), t)

(* Equality of Python values: scalars by type and text, lists item by item, dicts key *)
(* by key, ParamList.__eq__, ParamDict.__eq__, _ParamWrapper.__eq__ and the __eq__ of *)
(* a dataclass (same class, equal fields) ignore last_updated.                        *)
SameKeys(a, b) ==
    /\ \A i \in DOMAIN a.items : \E j \in DOMAIN b.items :
          a.items[i].k = b.items[j].k /\ a.items[i].kt = b.items[j].kt
    /\ \A j \in DOMAIN b.items : \E i \in DOMAIN a.items :
          a.items[i].k = b.items[j].k /\ a.items[i].kt = b.items[j].kt
Keyed(a) == a.t \in {"dict", DictCls, StructCls}

RECURSIVE PyEq(_, _)
PyEq(a, b) ==
    /\ a.t = b.t
    /\ a.v = b.v
    /\ Len(a.items) = Len(b.items)
    /\ IF Keyed(a)
       THEN /\ SameKeys(a, b)
            /\ \A i \in DOMAIN a.items : \A j \in DOMAIN b.items :
                  a.items[i].k = b.items[j].k => PyEq(a.items[i].x, b.items[j].x)
       ELSE \A i \in DOMAIN a.items : PyEq(a.items[i].x, b.items[i].x)

\* a and b, of the same shape, have the same last_updated at every ParamData object
RECURSIVE SameLastUpdated(_, _)
SameLastUpdated(a, b) ==
    /\ IsParamData(a) => a.lu = b.lu
    /\ IF Keyed(a)
       THEN \A i \in DOMAIN a.items : \A j \in DOMAIN b.items :
               a.items[i].k = b.items[j].k => SameLastUpdated(a.items[i].x, b.items[j].x)
       ELSE \A i \in DOMAIN a.items :
               i \in DOMAIN b.items => SameLastUpdated(a.items[i].x, b.items[i].x)

(* ---------------------------------------------------------------------- *)
(* ParamDB                                                                 *)
(* ---------------------------------------------------------------------- *)
DBs == {"db1", "db2"}                       \* ParamDB objects of the same path
Messages == {"Initial commit", "Commit 1"}
CommitIds == 0..(MaxCommits + 1)            \* commit_id arguments; 0 stands for None
Indices == {<<>>} \cup {<<i>> : i \in (0 - MaxCommits - 1)..(MaxCommits + 1)}

\* The zones of the datetimes: UTC, the zone of the machine, and another one
LocalTz == "local"
Zones == {"UTC", LocalTz, "other"}
\* tzinfo.utcoffset(), in units of the clock
UtcOffsetOf(tzinfo) == CASE tzinfo = "UTC" -> 0
                         [] tzinfo = LocalTz -> 1
                         [] tzinfo = "other" -> 0 - 2
\* datetime.utcoffset(): None for a naive datetime
utcoffset(dt) == IF dt.tzinfo = NaiveTz THEN None ELSE UtcOffsetOf(dt.tzinfo)
\* datetime.replace(tzinfo=...): the same wall clock reading in another zone
replace_tzinfo(dt, tzinfo) == [dt EXCEPT !.tzinfo = tzinfo]
\* datetime.astimezone(tz) of an aware datetime: the same instant in zone tz
astimezone(dt, tzinfo) ==
    Datetime(dt.wall - UtcOffsetOf(dt.tzinfo) + UtcOffsetOf(tzinfo), tzinfo)
\* The instant an aware datetime denotes, as the reading of a UTC clock
Instant(dt) == dt.wall - UtcOffsetOf(dt.tzinfo)

\* __post_init__ that takes the timestamp as a time of the zone of the machine
CommitEntry__post_init___as_local(dt) == replace_tzinfo(dt, LocalTz)

\* CommitEntry.__post_init__: self.timestamp.replace(tzinfo=timezone.utc).astimezone()
CommitEntry__post_init__(dt) ==
    astimezone(replace_tzinfo(dt, "UTC"), LocalTz)

\* CommitEntry(id, message, timestamp) of a row of the table, whose timestamp ts is the
\* reading of a UTC clock
CommitEntry(id, message, ts) ==
    [id |-> id, message |-> message,
     timestamp |-> CommitEntry__post_init__(Datetime(ts, NaiveTz))]
CommitEntryWithData(id, message, ts, data) ==
    [id |-> id, message |-> message,
     timestamp |-> CommitEntry__post_init__(Datetime(ts, NaiveTz)), data |-> data]
Result(op, db, id, status) ==
    [NoRet EXCEPT !.op = op, !.db = db, !.id = id, !.status = status]
Max(a, b) == IF a >= b THEN a ELSE b
Min(a, b) == IF a <= b THEN a ELSE b

\* Ids that begin at 0
NextId_from_zero(rows) == IF rows = <<>> THEN 0 ELSE rows[Len(rows)].id + 1

\* The id SQLite gives to a new row of snapshot: one more than the largest id
NextId(rows) == IF rows = <<>> THEN 1 ELSE Max(1, rows[Len(rows)].id + 1)

\* The objects handed to commit(): a container no other container holds, or a plain value
Roots(h) == {n \in Live(h) : IsContainer(h, n) /\ n \notin Referenced(h)}
Committable(h) == {Obj(h, n) : n \in Roots(h)}
CommitPlain == {NotJSONSerializable}         \* committed outside any parameter object
\* One tree of objects is built
OneTree == \A m, n \in Roots(heap) : m = n
Busy(db) == hist.pc # "idle" /\ hist.db = db

\* commit() that writes over the latest commit
ParamDB_commit_update(db, message, obj) ==
    /\ ~Busy(db)
    /\ Len(log) < MaxCommits
    /\ \E reads \in ClockReads(1) :
         LET data == _encode(obj)
             snapshot == [id |-> NextId(log), message |-> message,
                          timestamp |-> reads[1], data |-> data]
             entry == CommitEntry(snapshot.id, snapshot.message, snapshot.timestamp)
         IN IF IsRaise(data)
            THEN /\ log' = log
                 /\ returned' = returned
                 /\ now' = now
                 /\ ret' = [Result("commit", db, None, data.raise) EXCEPT
                              !.message = message]
            ELSE /\ log' = IF log = <<>> THEN <<snapshot>>
                           ELSE [log EXCEPT ![Len(log)] =
                                   [snapshot EXCEPT !.id = Len(log)]]
                 /\ returned' = Append(returned,
                                       [entry |-> entry, tree |-> obj, payload |-> data])
                 /\ now' = reads[1]
                 /\ ret' = [Result("commit", db, None, "ok") EXCEPT
                              !.message = message, !.entry = entry]
    /\ last' = NoOp /\ UNCHANGED <<heap, hist>>

\* ParamDB.commit(message, data)
ParamDB_commit(db, message, obj) ==
    /\ ~Busy(db)
    /\ Len(log) < MaxCommits
    /\ \E reads \in ClockReads(1) :
         LET data == _encode(obj)
             snapshot == [id |-> NextId(log), message |-> message,
                          timestamp |-> reads[1], data |-> data]
             entry == CommitEntry(snapshot.id, snapshot.message, snapshot.timestamp)
         IN IF IsRaise(data)
            THEN /\ log' = log
                 /\ returned' = returned
                 /\ now' = now
                 /\ ret' = [Result("commit", db, None, data.raise) EXCEPT
                              !.message = message]
            ELSE /\ log' = Append(log, snapshot)
                 /\ returned' = Append(returned,
                                       [entry |-> entry, tree |-> obj, payload |-> data])
                 /\ now' = reads[1]
                 /\ ret' = [Result("commit", db, None, "ok") EXCEPT
                              !.message = message, !.entry = entry]
    /\ last' = NoOp /\ UNCHANGED <<heap, hist>>

\* ParamDB.commit(message, data, timestamp) with the timestamp given: the row gets the
\* reading of a UTC clock at that instant, a naive timestamp being taken as such a
\* reading, and the clock is not read
ParamDB_commit_timestamp(db, message, obj, given) ==
    /\ ~Busy(db)
    /\ Len(log) < MaxCommits
    /\ LET data == _encode(obj)
           utc_offset == utcoffset(given)
           snapshot == [id |-> NextId(log), message |-> message,
                        timestamp |-> IF utc_offset = None THEN given.wall
                                      ELSE replace_tzinfo(given, NaiveTz).wall
                                              - utc_offset,
                        data |-> data]
           entry == CommitEntry(snapshot.id, snapshot.message, snapshot.timestamp)
       IN IF IsRaise(data)
          THEN /\ log' = log
               /\ returned' = returned
               /\ ret' = [Result("commit", db, None, data.raise) EXCEPT
                            !.message = message, !.timestamp = given]
          ELSE /\ log' = Append(log, snapshot)
               /\ returned' = Append(returned,
                                     [entry |-> entry, tree |-> obj, payload |-> data])
               /\ ret' = [Result("commit", db, None, "ok") EXCEPT
                            !.message = message, !.entry = entry,
                            !.timestamp = given]
    /\ last' = NoOp /\ UNCHANGED <<heap, now, hist>>

\* ParamDB.num_commits
ParamDB_num_commits(db) ==
    /\ ~Busy(db)
    /\ ret' = [Result("num_commits", db, None, "ok") EXCEPT !.count = Len(log)]
    /\ last' = NoOp /\ UNCHANGED <<heap, now, log, hist, returned>>

\* _select_commit() that orders by id, not by id descending
_select_commit_ascending(rows, commit_id) ==
    IF commit_id = None
    THEN SelectSeq(rows, LAMBDA r : \A i \in DOMAIN rows : rows[i].id >= r.id)
    ELSE SelectSeq(rows, LAMBDA r : r.id = commit_id)

\* The rows _select_commit() selects: the row of the largest id, or the rows of the id
_select_commit(rows, commit_id) ==
    IF commit_id = None
    THEN SelectSeq(rows, LAMBDA r : \A i \in DOMAIN rows : rows[i].id <= r.id)
    ELSE SelectSeq(rows, LAMBDA r : r.id = commit_id)

\* ParamDB.load(commit_id)
ParamDB_load(db, commit_id) ==
    /\ ~Busy(db)
    /\ \E reads \in ClockReads(1) :
         LET rows == _select_commit(log, commit_id)
             data == _decode(rows[1].data, reads[1])
         IN /\ ret' = IF rows = <<>> THEN Result("load", db, commit_id, "IndexError")
                      ELSE IF IsRaise(data)
                      THEN [Result("load", db, commit_id, data.raise) EXCEPT
                              !.class_name = data.class_name]
                      ELSE [Result("load", db, commit_id, "ok") EXCEPT !.data = data]
            /\ now' = IF rows = <<>> THEN now ELSE reads[1]
    /\ last' = NoOp /\ UNCHANGED <<heap, log, hist, returned>>

\* load_commit_entry() that returns None when there is no such commit
ParamDB_load_commit_entry_none(db, commit_id) ==
    /\ ~Busy(db)
    /\ LET rows == _select_commit(log, commit_id)
       IN ret' = IF rows = <<>>
                 THEN Result("load_commit_entry", db, commit_id, "ok")
                 ELSE [Result("load_commit_entry", db, commit_id, "ok") EXCEPT
                         !.entry = CommitEntry(rows[1].id, rows[1].message,
                                               rows[1].timestamp)]
    /\ last' = NoOp /\ UNCHANGED <<heap, now, log, hist, returned>>

\* ParamDB.load_commit_entry(commit_id)
ParamDB_load_commit_entry(db, commit_id) ==
    /\ ~Busy(db)
    /\ LET rows == _select_commit(log, commit_id)
       IN ret' = IF rows = <<>>
                 THEN Result("load_commit_entry", db, commit_id, "IndexError")
                 ELSE [Result("load_commit_entry", db, commit_id, "ok") EXCEPT
                         !.entry = CommitEntry(rows[1].id, rows[1].message,
                                               rows[1].timestamp)]
    /\ last' = NoOp /\ UNCHANGED <<heap, now, log, hist, returned>>

\* _select_slice() that leaves a negative end as it is
_select_slice_end_as_given(num_commits, start, end) ==
    LET start1 == IF start = <<>> THEN 0 ELSE start[1]
        end1 == IF end = <<>> THEN num_commits ELSE end[1]
        start2 == IF start1 < 0 THEN Max(start1 + num_commits, 0) ELSE start1
    IN [offset |-> start2, limit |-> Max(end1 - start2, 0)]

\* ParamDB._select_slice(): OFFSET and LIMIT of the query, from num_commits
_select_slice(num_commits, start, end) ==
    LET start1 == IF start = <<>> THEN 0 ELSE start[1]
        end1 == IF end = <<>> THEN num_commits ELSE end[1]
        start2 == IF start1 < 0 THEN Max(start1 + num_commits, 0) ELSE start1
        end2 == IF end1 < 0 THEN Max(end1 + num_commits, 0) ELSE end1
    IN [offset |-> start2, limit |-> Max(end2 - start2, 0)]

\* ORDER BY id OFFSET offset LIMIT limit
\* (a negative LIMIT is no limit, a negative OFFSET is no offset)
OffsetLimit(rows, offset, limit) ==
    SubSeq(rows, Max(offset, 0) + 1,
           IF limit < 0 THEN Len(rows) ELSE Min(Max(offset, 0) + limit, Len(rows)))

\* commit_history(start, end) and commit_history_with_data(start, end): first the
\* query of num_commits ...
ParamDB_commit_history_count(db, start, end, with_data) ==
    /\ hist.pc = "idle"
    /\ hist' = [pc |-> "select", db |-> db, start |-> start, end |-> end,
                num_commits |-> Len(log), with_data |-> with_data]
    /\ ret' = NoRet
    /\ last' = NoOp /\ UNCHANGED <<heap, now, log, returned>>

\* ... then the query of the rows
ParamDB_commit_history_select ==
    /\ hist.pc = "select"
    /\ \E reads \in ClockReads(IF hist.with_data THEN 1 ELSE 0) :
         LET sl == _select_slice(hist.num_commits, hist.start, hist.end)
             rows == OffsetLimit(log, sl.offset, sl.limit)
             datas == [i \in DOMAIN rows |-> _decode(rows[i].data, reads[1])]
             name == IF hist.with_data THEN "commit_history_with_data"
                     ELSE "commit_history"
             res == [Result(name, hist.db, None, "ok") EXCEPT
                       !.start = hist.start, !.end = hist.end,
                       !.count = hist.num_commits]
         IN /\ ret' = IF hist.with_data /\ \E i \in DOMAIN rows : IsRaise(datas[i])
                      THEN [res EXCEPT !.status = "ValueError"]
                      ELSE [res EXCEPT
                              !.entries = [i \in DOMAIN rows |->
                                  IF hist.with_data
                                  THEN CommitEntryWithData(rows[i].id, rows[i].message,
                                           rows[i].timestamp, datas[i])
                                  ELSE CommitEntry(rows[i].id, rows[i].message,
                                                   rows[i].timestamp)]]
            /\ now' = IF hist.with_data THEN reads[1] ELSE now
    /\ hist' = Idle
    /\ last' = NoOp /\ UNCHANGED <<heap, log, returned>>

\* Objects are built and changed, committed through "db1" and read through "db2";
\* a constructor is given no item or one
NextDB ==
    \/ GraphStep /\ \E items \in DBItems(heap) :
         ParamList__init__(items) /\ OneTree' /\ now' = now
    \/ GraphStep /\ \E items \in DBItems(heap) :
         /\ ParamDict__init__(CHOOSE ks \in KeySeqs(Len(items)) : TRUE, items)
         /\ OneTree' /\ now' = now
    \/ GraphStep /\ \E value \in DBValues(heap, None) :
         SimpleParam__init__(value) /\ OneTree' /\ now' = now
    \/ GraphStep /\ \E self \in Nodes, i \in DOMAIN FieldNames :
         \E p \in {OtherNumber, NotJSONSerializable} :
            SimpleParam__setattr__(self, i, PlainValue(p))
    \/ Step /\ \E message \in Messages, obj \in Committable(heap) \cup CommitPlain :
         ParamDB_commit("db1", message, obj)
    \/ Step /\ ParamDB_num_commits("db2")
    \/ Step /\ \E commit_id \in CommitIds : ParamDB_load("db2", commit_id)
    \/ Step /\ \E commit_id \in CommitIds :
         ParamDB_load_commit_entry("db2", commit_id)
    \/ Step /\ ParamDB_commit_history_count("db2", <<>>, <<>>, TRUE)
    \/ Step /\ ParamDB_commit_history_select

SpecDB == Init /\ [][NextDB]_vars

\* "db1" commits plain values while "db2" reads the history
NextHistory ==
    \/ UNCHANGED <<steps, _param_classes>> /\ \E message \in Messages :
         ParamDB_commit("db1", message, DEFAULT_NUMBER)
    \/ UNCHANGED <<steps, _param_classes>> /\ \E start \in Indices, end \in Indices, with_data \in BOOLEAN :
         ParamDB_commit_history_count("db2", start, end, with_data)
    \/ UNCHANGED <<steps, _param_classes>> /\ ParamDB_commit_history_select

SpecHistory == Init /\ [][NextHistory]_vars

\* The timestamps given to commit(): naive ones and ones of every zone
Timestamps == {Datetime(wall, tzinfo) : wall \in 0..MaxClock, tzinfo \in {NaiveTz} \cup Zones}

\* "db1" commits with and without a timestamp while "db2" reads entries and history
NextTimestamp ==
    \/ UNCHANGED <<steps, _param_classes>> /\ \E given \in Timestamps :
         ParamDB_commit_timestamp("db1", "Commit 1", DEFAULT_NUMBER, given)
    \/ UNCHANGED <<steps, _param_classes>>
         /\ ParamDB_commit("db1", "Initial commit", DEFAULT_NUMBER)
    \/ UNCHANGED <<steps, _param_classes>> /\ \E commit_id \in CommitIds :
         ParamDB_load_commit_entry("db2", commit_id)
    \/ UNCHANGED <<steps, _param_classes>> /\ \E with_data \in BOOLEAN :
         ParamDB_commit_history_count("db2", <<>>, <<>>, with_data)
    \/ UNCHANGED <<steps, _param_classes>> /\ ParamDB_commit_history_select

SpecTimestamp == Init /\ [][NextTimestamp]_vars

\* del _param_classes[class_name]: the class is not known to ParamDB any more
del_param_class(class_name) ==
    /\ class_name \in _param_classes
    /\ _param_classes' = _param_classes \ {class_name}
    /\ ret' = NoRet /\ last' = NoOp
    /\ UNCHANGED <<heap, now, log, hist, returned>>

\* ParamData.__init_subclass__() of a class of that name: the class is known
ParamData__init_subclass__(class_name) ==
    /\ _param_classes' = _param_classes \cup {class_name}
    /\ ret' = NoRet /\ last' = NoOp
    /\ UNCHANGED <<heap, now, log, hist, returned>>

\* ParamDB.load(commit_id, raw_json=True)
ParamDB_load_raw_json(db, commit_id) ==
    /\ ~Busy(db)
    /\ LET rows == _select_commit(log, commit_id)
       IN ret' = IF rows = <<>>
                 THEN Result("load_raw_json", db, commit_id, "IndexError")
                 ELSE [Result("load_raw_json", db, commit_id, "ok") EXCEPT
                         !.data = _decompress(rows[1].data)]
    /\ last' = NoOp /\ UNCHANGED <<heap, now, log, hist, returned>>

\* Objects are built and committed, and loaded while classes leave and enter the
\* dictionary of the classes
NextClasses ==
    \/ \E items \in {<<>>} \cup {<<NodeValue(n)>> : n \in Roots(heap)} :
         /\ ParamList__init__(items) /\ OneTree' /\ now' = now /\ ret' = NoRet
         /\ UNCHANGED <<steps, log, hist, returned, _param_classes>>
    \/ /\ SimpleParam__init__(PlainValue(DEFAULT_NUMBER))
       /\ OneTree' /\ now' = now /\ ret' = NoRet
       /\ UNCHANGED <<steps, log, hist, returned, _param_classes>>
    \/ \E obj \in Committable(heap) :
         ParamDB_commit("db1", "Initial commit", obj)
            /\ UNCHANGED <<steps, _param_classes>>
    \/ \E commit_id \in {None, 1} :
         ParamDB_load("db2", commit_id) /\ UNCHANGED <<steps, _param_classes>>
    \/ \E commit_id \in {None, 1} :
         ParamDB_load_raw_json("db2", commit_id) /\ UNCHANGED <<steps, _param_classes>>
    \/ \E class_name \in {ListCls, StructCls} :
         del_param_class(class_name) /\ UNCHANGED steps
    \/ \E class_name \in {ListCls, StructCls} :
         ParamData__init_subclass__(class_name) /\ UNCHANGED steps

SpecClasses == Init /\ [][NextClasses]_vars

(* ---------------------------------------------------------------------- *)
(* The parent and the root of an object                                    *)
(* ---------------------------------------------------------------------- *)
\* What reading an attribute of self gave
Accessed(op, self, r, initialized) ==
    [NoRet EXCEPT !.op = op, !.self = self, !.status = r.status, !.error = r.error,
                  !.obj = r.obj, !.initialized = initialized]
Reads == UNCHANGED <<heap, now, steps, log, hist, returned, _param_classes>>

AccessStep == /\ steps < MaxShareOps /\ steps' = steps + 1
              /\ UNCHANGED <<log, hist, returned, _param_classes>>

\* self.parent
ParamData_parent(self) ==
    /\ self \in Live(heap) /\ IsContainer(heap, self)
    /\ ret' = Accessed("parent", self, parent(heap, self), TRUE)
    /\ last' = [NoOp EXCEPT !.name = "parent"]
    /\ Reads

\* self.root
ParamData_root(self) ==
    /\ self \in Live(heap) /\ IsContainer(heap, self)
    /\ ret' = Accessed("root", self,
                       [status |-> "ok", error |-> "", obj |-> root(heap, self)], TRUE)
    /\ last' = [NoOp EXCEPT !.name = "root"]
    /\ Reads

\* The message of the error ParentMixin.parent and RootMixin.root raise for an object
\* whose _initialized is False
NotInitialized == "before it is done initializing"

\* AccessParentBeforeInitialized(): a subclass of SimpleParam whose __post_init__ reads
\* self.parent and then calls super().__post_init__(). __new__ and the generated
\* __init__ have run when the attribute is read; the ValueError leaves the constructor
\* and the object is dropped
AccessParentBeforeInitialized ==
    /\ Cardinality(FreeIds(heap)) >= 3
    /\ \E reads \in ClockReads(3) :
         LET self == Alloc(heap)
             h0 == [ParamData__init__(heap, self, StructCls, reads[1]) EXCEPT
                      ![self].keys = FieldNames,
                      ![self]._contents = [i \in DOMAIN FieldNames |-> None]]
             s1 == ParamDataclass__setattr__(h0, self, 1, None, PlainValue(DEFAULT_NUMBER),
                                             <<reads[2], reads[2], reads[3]>>)
             r == parent(s1.heap, self)
         IN /\ r.status # "ok"
            /\ heap' = heap
            /\ now' = reads[3]
            /\ ret' = Accessed("parent", self, r, FALSE)
            /\ last' = [NoOp EXCEPT !.name = "AccessParentBeforeInitialized"]

\* AccessRootBeforeInitialized(): a subclass of SimpleParam whose __post_init__ reads
\* self.root and then calls super().__post_init__(); the attribute is read without
\* an error and the construction goes on
AccessRootBeforeInitialized ==
    /\ Cardinality(FreeIds(heap)) >= 3
    /\ \E reads \in ClockReads(6) :
         LET self == Alloc(heap)
             h0 == [ParamData__init__(heap, self, StructCls, reads[1]) EXCEPT
                      ![self].keys = FieldNames,
                      ![self]._contents = [i \in DOMAIN FieldNames |-> None]]
             s1 == ParamDataclass__setattr__(h0, self, 1, None, PlainValue(DEFAULT_NUMBER),
                                             <<reads[2], reads[2], reads[3]>>)
             r == [status |-> "ok", error |-> "", obj |-> root(s1.heap, self)]
             h2 == ParamDataclass__post_init__(s1.heap, self, 1,
                       NodeValue(s1.heap[self]._contents[1]), <<reads[4], reads[4]>>)
             h3 == ParamDataclass__post_init__(h2, self, 2, PlainValue(DEFAULT_NUMBER),
                                               <<reads[5], reads[6]>>)
         IN /\ heap' = Collect(h3)
            /\ now' = reads[6]
            /\ ret' = Accessed("root", self, r, FALSE)
            /\ last' = [NoOp EXCEPT !.name = "AccessRootBeforeInitialized"]

\* Objects are nested in lists and in SimpleParam objects and taken out of lists, and
\* their parent and root are read, after and during their construction
NextAccess ==
    \/ ShareStep /\ \E items \in {<<>>} \cup {<<value>> : value \in GraphValues(heap, None)} :
         ParamList__init__(items)
    \/ ShareStep /\ \E value \in GraphValues(heap, None) : SimpleParam__init__(value)
    \/ ShareStep /\ \E self \in Nodes, index \in 1..MaxLen : ParamList__delitem__(self, index)
    \/ \E self \in Nodes : ParamData_parent(self)
    \/ \E self \in Nodes : ParamData_root(self)
    \/ AccessStep /\ AccessParentBeforeInitialized
    \/ AccessStep /\ AccessRootBeforeInitialized

SpecAccess == Init /\ [][NextAccess]_vars

(* ---------------------------------------------------------------------- *)
(* ParamDataclass with validation of assignments                           *)
(* ---------------------------------------------------------------------- *)
WrongType == Scalar("str", "123")

\* pydantic_validator.validate_assignment(self, name, value), in strict mode, for a
\* field that takes numbers and parameter data: the message of the ValidationError
\* it raises, or "" when it accepts the value
validate_assignment(value) ==
    IF value.n = None /\ value.p.t # "float" THEN "Input should be a valid number" ELSE ""

\* obj.name = value for the declared field at position i of an object of a class
\* with validate_assignment: __base_setattr validates before anything else is done
WithAssignmentValidationParam__setattr__(self, i, value) ==
    /\ self \in Structs(heap) /\ i \in DOMAIN FieldNames
    /\ IF validate_assignment(value) # ""
       THEN /\ ret' = [Accessed("setattr", self,
                                [status |-> "ValidationError",
                                 error |-> validate_assignment(value), obj |-> value.n],
                                TRUE) EXCEPT !.count = i, !.data = value.p]
            /\ last' = [NoOp EXCEPT !.name = "ValidationError"]
            /\ UNCHANGED <<heap, now>>
       ELSE /\ SimpleParam__setattr__(self, i, value)
            /\ ret' = [Accessed("setattr", self,
                                [status |-> "ok", error |-> "", obj |-> value.n],
                                TRUE) EXCEPT !.count = i, !.data = value.p]

\* del obj.name for the declared field at position i: the attribute of the instance
\* is removed, so that the name gives the default of the class again, and the old
\* child is unregistered
ParamDataclass__delattr__(self, i) ==
    /\ self \in Structs(heap) /\ i \in DOMAIN FieldNames
    /\ heap[self]._contents[i] # None
    /\ \E reads \in ClockReads(1) :
         LET old_wrapped_value == heap[self]._contents[i]
             h1 == [heap EXCEPT ![self]._contents[i] = None]
             h2 == _remove_child(h1, self, old_wrapped_value, reads[1])
         IN /\ heap' = Collect(h2)
            /\ now' = reads[1]
            /\ last' = Done("delattr", self, reads[1],
                            RemoveWalk(h1, self, old_wrapped_value, reads[1]))

\* obj.non_field = value stamping the object as for a field
SimpleParam__setattr__non_field_stamping(self, value) ==
    /\ self \in Structs(heap)
    /\ \E reads \in ClockReads(1) :
         /\ heap' = _update_last_updated([heap EXCEPT ![self].non_field = value],
                                         self, reads[1])
         /\ now' = reads[1]
         /\ last' = [NoOp EXCEPT !.name = "setattr_non_field", !.target = self]

\* obj.non_field = value, where non_field is not in _field_names and the class does
\* not validate: the attribute is set and nothing else is done
SimpleParam__setattr__non_field(self, value) ==
    /\ self \in Structs(heap)
    /\ heap' = [heap EXCEPT ![self].non_field = value]
    /\ now' = now
    /\ last' = [NoOp EXCEPT !.name = "setattr_non_field", !.target = self]

\* Objects with validated fields are built, their fields are deleted, and numbers,
\* strings and containers are assigned to their fields and to other attributes
NextValidated ==
    \/ ShareStep /\ \E items \in {<<>>} \cup {<<value>> : value \in GraphValues(heap, None)} :
         ParamList__init__(items)
    \/ ShareStep /\ \E value \in GraphValues(heap, None) : SimpleParam__init__(value)
    \/ ShareStep /\ \E self \in Nodes, i \in DOMAIN FieldNames :
         ParamDataclass__delattr__(self, i)
    \/ AccessStep /\ \E self \in Nodes, i \in DOMAIN FieldNames :
         \E value \in GraphValues(heap, self) \cup {PlainValue(WrongType)} :
            WithAssignmentValidationParam__setattr__(self, i, value)
    \/ ShareStep /\ \E self \in Nodes : \E value \in GraphValues(heap, self) :
         SimpleParam__setattr__non_field(self, value)

SpecValidated == Init /\ [][NextValidated]_vars

(* ---------------------------------------------------------------------- *)
(* Items of a ParamDict as attributes                                      *)
(* ---------------------------------------------------------------------- *)
\* The names used as keys and as attribute names: a plain key, a method of the class,
\* an attribute of the instance, and a dunder name the class does not define
AttrNames == {"a", "keys", "_contents", "__deepcopy__"}
\* The names object.__getattribute__ finds on a ParamDict
ExistingAttributes == {"keys", "_contents"}
\* of which these are in the __dict__ of the instance
InstanceAttributes == {"_contents"}
\* The names with a type hint in a class of the mro
class_annotations == {"_parent", "_last_updated", "_last_updated_frozen", "_contents"}
dunder(name) == name \in {"__deepcopy__"}

\* ParamDict._is_attribute(name)
_is_attribute(name) ==
    name \in ExistingAttributes \/ name \in class_annotations \/ dunder(name)

ContainsKey(h, self, key) == key \in Range(h[self].keys)
\* ParamDict.__getitem__(key) of a key of the dictionary
ParamDict__getitem__(h, self, key) ==
    _unwrap_child(h, h[self]._contents[IndexOf(h[self].keys, key)])

\* What an operation on the name of a dictionary gave: the item or the attribute
\* returned, the value stored, or the error raised
Named(op, self, name, status, kind, value) ==
    [NoRet EXCEPT !.op = op, !.self = self, !.name = name, !.status = status,
                  !.kind = kind, !.obj = value.n, !.data = value.p]
NoResult == PlainValue(NoValue)

\* m[key]
ParamDict_get_item(self, key) ==
    /\ self \in Dicts(heap)
    /\ ret' = IF ContainsKey(heap, self, key)
              THEN Named("getitem", self, key, "ok", "item",
                         ParamDict__getitem__(heap, self, key))
              ELSE Named("getitem", self, key, "KeyError", "", NoResult)
    /\ last' = [NoOp EXCEPT !.name = "getitem"]
    /\ Reads

\* An attribute read that gives the item whenever the name is a key
ParamDict_get_attr_item_first(self, name) ==
    /\ self \in Dicts(heap)
    /\ ret' = IF ContainsKey(heap, self, name)
              THEN Named("getattr", self, name, "ok", "item",
                         ParamDict__getitem__(heap, self, name))
              ELSE IF name \in ExistingAttributes
              THEN Named("getattr", self, name, "ok", "attribute", NoResult)
              ELSE Named("getattr", self, name, "AttributeError", "", NoResult)
    /\ last' = [NoOp EXCEPT !.name = "getattr"]
    /\ Reads

\* m.name: the attribute object.__getattribute__ finds, or else __getattr__(name)
ParamDict_get_attr(self, name) ==
    /\ self \in Dicts(heap)
    /\ ret' = IF name \in ExistingAttributes
              THEN Named("getattr", self, name, "ok", "attribute", NoResult)
              ELSE IF _is_attribute(name) \/ ~ContainsKey(heap, self, name)
              THEN Named("getattr", self, name, "AttributeError", "", NoResult)
              ELSE Named("getattr", self, name, "ok", "item",
                         ParamDict__getitem__(heap, self, name))
    /\ last' = [NoOp EXCEPT !.name = "getattr"]
    /\ Reads

\* m[key] = value
ParamDict_set_item(self, key, value) ==
    /\ ParamDict__setitem__(self, key, value)
    /\ ret' = Named("setitem", self, key, "ok", "item", value)

\* m.name = value for a name that _is_attribute() does not take for an attribute
ParamDict__setattr__(self, name, value) ==
    /\ ~_is_attribute(name)
    /\ ParamDict__setitem__(self, name, value)
    /\ ret' = Named("setattr", self, name, "ok", "item", value)

\* del m[key]: the KeyError of the inner dict comes before anything else is done
ParamDict_del_item(self, key) ==
    /\ self \in Dicts(heap)
    /\ IF ContainsKey(heap, self, key)
       THEN /\ ParamDict__delitem__(self, key)
            /\ ret' = Named("delitem", self, key, "ok", "item", NoResult)
       ELSE /\ ret' = Named("delitem", self, key, "KeyError", "", NoResult)
            /\ last' = [NoOp EXCEPT !.name = "KeyError"]
            /\ UNCHANGED <<heap, now>>

\* del m.name for a name that is not in the __dict__ of the instance: the item is
\* deleted, or object.__delattr__ raises AttributeError
ParamDict__delattr__(self, name) ==
    /\ self \in Dicts(heap) /\ name \notin InstanceAttributes
    /\ IF _is_attribute(name) \/ ~ContainsKey(heap, self, name)
       THEN /\ ret' = Named("delattr", self, name, "AttributeError", "", NoResult)
            /\ last' = [NoOp EXCEPT !.name = "AttributeError"]
            /\ UNCHANGED <<heap, now>>
       ELSE /\ ParamDict__delitem__(self, name)
            /\ ret' = Named("delattr", self, name, "ok", "item", NoResult)

\* Dictionaries are built with the names as keys, and their items are read, set and
\* deleted with brackets and as attributes
AttrStep == /\ steps < MaxAttrOps /\ steps' = steps + 1
            /\ UNCHANGED <<log, hist, returned, _param_classes>>
NextAttribute ==
    \/ AttrStep /\ ret' = NoRet /\ \E items \in {<<>>} \cup {<<value>> : value \in GraphValues(heap, None)} :
         \E key \in AttrNames : ParamDict__init__(IF items = <<>> THEN <<>> ELSE <<key>>, items)
    \/ \E self \in Nodes, key \in AttrNames : ParamDict_get_item(self, key)
    \/ \E self \in Nodes, name \in AttrNames : ParamDict_get_attr(self, name)
    \/ AttrStep /\ \E self \in Nodes, key \in AttrNames :
         \E value \in GraphValues(heap, self) : ParamDict_set_item(self, key, value)
    \/ AttrStep /\ \E self \in Nodes, name \in AttrNames :
         \E value \in GraphValues(heap, self) : ParamDict__setattr__(self, name, value)
    \/ AttrStep /\ \E self \in Nodes, key \in AttrNames : ParamDict_del_item(self, key)
    \/ AttrStep /\ \E self \in Nodes, name \in AttrNames : ParamDict__delattr__(self, name)

SpecAttribute == Init /\ [][NextAttribute]_vars

(* ---------------------------------------------------------------------- *)
(* Equality of collections                                                 *)
(* ---------------------------------------------------------------------- *)
CustomListCls == "CustomParamList"       \* class CustomParamList(ParamList[Any])
CustomDictCls == "CustomParamDict"       \* class CustomParamDict(ParamDict[Any])
ListClasses == {ListCls, CustomListCls}  \* isinstance(x, ParamList)
DictClasses == {DictCls, CustomDictCls}  \* isinstance(x, ParamDict)

\* _wrap_child(child) for a child given as a value: a ParamData object is kept, any
\* other value is put in a _ParamWrapper created at time t
_wrap_child_value(child, t) ==
    IF child.t \in ListClasses \cup DictClasses THEN child
    ELSE [t |-> WrapperCls, v |-> "", lu |-> t, items |-> <<Item("", "", child)>>]
\* cls(iterable) for a class of lists and cls(mapping) for a class of dictionaries,
\* at time t, as values
ParamListOf(cls, xs, t) ==
    [t |-> cls, v |-> "", lu |-> t,
     items |-> [i \in DOMAIN xs |-> Item("", "", _wrap_child_value(xs[i], t))]]
ParamDictOf(cls, items, t) ==
    [t |-> cls, v |-> "", lu |-> t,
     items |-> [i \in DOMAIN items |->
                  Item(items[i].k, "str", _wrap_child_value(items[i].x, t))]]

\* a == b in Python: type(a).__eq__(a, b), then the reflected type(b).__eq__(b, a) if
\* that gave NotImplemented, then the identity of the two objects, which are distinct
RECURSIVE eq(_, _)
RECURSIVE type__eq__(_, _)
list_eq(xs, ys) ==
    /\ Len(xs) = Len(ys)
    /\ \A i \in DOMAIN xs : eq(xs[i].x, ys[i].x)
dict_eq(xs, ys) ==
    /\ Len(xs) = Len(ys)
    /\ \A i \in DOMAIN xs : \E j \in DOMAIN ys :
          xs[i].k = ys[j].k /\ eq(xs[i].x, ys[j].x)
Bool(b) == IF b THEN "True" ELSE "False"
_ParamWrapper__eq__(self, other) ==
    other.t = WrapperCls /\ eq(self.items[1].x, other.items[1].x)
\* An equality of lists that looks at the contents only
ParamList__eq__by_contents(self, other) ==
    /\ other.t \in ListClasses \cup {"list"}
    /\ list_eq(self.items,
               [i \in DOMAIN other.items |->
                  Item("", "", _wrap_child_value(other.items[i].x, other.lu))])
ParamList__eq__(self, other) ==
    other.t \in ListClasses /\ list_eq(self.items, other.items)
ParamDict__eq__(self, other) ==
    other.t \in DictClasses /\ dict_eq(self.items, other.items)
type__eq__(a, b) ==
    IF a.t = WrapperCls THEN Bool(_ParamWrapper__eq__(a, b))
    ELSE IF a.t \in ListClasses THEN Bool(ParamList__eq__(a, b))
    ELSE IF a.t \in DictClasses THEN Bool(ParamDict__eq__(a, b))
    ELSE IF a.t # b.t THEN "NotImplemented"
    ELSE IF a.t = "list" THEN Bool(list_eq(a.items, b.items))
    ELSE IF a.t = "dict" THEN Bool(dict_eq(a.items, b.items))
    ELSE Bool(a.v = b.v)
eq(a, b) ==
    LET r == type__eq__(a, b)
    IN IF r # "NotImplemented" THEN r = "True" ELSE type__eq__(b, a) = "True"

\* The values compared: numbers, and lists and dictionaries, plain or of a class of
\* collections, of numbers and of collections of one number
EqPlain == {DEFAULT_NUMBER, OtherNumber}
EqItems == EqPlain \cup {ParamListOf(ListCls, <<DEFAULT_NUMBER>>, 1),
                         ParamListOf(CustomListCls, <<DEFAULT_NUMBER>>, 1),
                         PyList(<<DEFAULT_NUMBER>>)}
EqSeqs == UNION {[1..k -> EqItems] : k \in 0..MaxLen}
EqKeys == {ks \in UNION {[1..k -> Keys] : k \in 0..MaxLen} :
              \A i, j \in DOMAIN ks : i # j => ks[i] # ks[j]}
EqMappings == {[i \in DOMAIN ks |-> Item(ks[i], "str", xs[i])] :
                  <<ks, xs>> \in {p \in EqKeys \X EqSeqs : Len(p[1]) = Len(p[2])}}
EqLists(t) == {ParamListOf(cls, xs, t) : cls \in ListClasses, xs \in EqSeqs}
EqDicts(t) == {ParamDictOf(cls, items, t) : cls \in DictClasses, items \in EqMappings}
EqContents == {PyList(xs) : xs \in EqSeqs} \cup {PyDict(items) : items \in EqMappings}

\* self == other, and contents == collection with the plain value on the left
Compared(self, other) ==
    /\ ret' = [NoRet EXCEPT !.op = "eq", !.data = self, !.other = other,
                            !.equal = eq(self, other)]
    /\ last' = [NoOp EXCEPT !.name = "eq"]
    /\ Reads
ParamList_eq(self, other) == self.t \in ListClasses /\ Compared(self, other)
ParamDict_eq(self, other) == self.t \in DictClasses /\ Compared(self, other)
Contents_eq(self, other) ==
    /\ self.t \in {"list", "dict"} /\ other.t \in ListClasses \cup DictClasses
    /\ Compared(self, other)

\* A comparison changes nothing, so each one is made from the initial state
EqStep == ret.op = ""
\* Collections built at the first clock reading are compared with collections built
\* at the last one and with plain lists and dictionaries
NextEq ==
    \/ EqStep /\ \E self \in EqLists(1), other \in EqLists(MaxClock) \cup EqDicts(MaxClock) \cup EqContents :
         ParamList_eq(self, other)
    \/ EqStep /\ \E self \in EqDicts(1), other \in EqLists(MaxClock) \cup EqDicts(MaxClock) \cup EqContents :
         ParamDict_eq(self, other)
    \/ EqStep /\ \E self \in EqContents, other \in EqLists(MaxClock) \cup EqDicts(MaxClock) :
         Contents_eq(self, other)

SpecEq == Init /\ [][NextEq]_vars

(* ---------------------------------------------------------------------- *)
(* Reading what was stored                                                 *)
(* ---------------------------------------------------------------------- *)
OtherValue == PlainValue(OtherNumber)
\* What was stored in, or read from, the item at position index of a list
Indexed(op, self, index, value) ==
    [NoRet EXCEPT !.op = op, !.self = self, !.index = index, !.status = "ok",
                  !.kind = "item", !.obj = value.n, !.data = value.p]

\* l[index] = value
ParamList_set_index(self, index, value) ==
    /\ ParamList__setitem__(self, index, value)
    /\ ret' = Indexed("setitem", self, index, value)
\* l.insert(index, value): the value becomes the item at position index + 1
ParamList_insert_value(self, index, value) ==
    /\ ParamList_insert(self, index, value)
    /\ ret' = Indexed("insert", self, index + 1, value)
\* p.name = value for the field at position i
SimpleParam_set_field(self, i, value) ==
    /\ SimpleParam__setattr__(self, i, value)
    /\ ret' = Named("setattr", self, FieldNames[i], "ok", "field", value)

\* l[index]
ParamList__getitem__(self, index) ==
    /\ self \in Lists(heap) /\ index \in DOMAIN heap[self]._contents
    /\ ret' = Indexed("getitem", self, index,
                      _unwrap_child(heap, heap[self]._contents[index]))
    /\ last' = [NoOp EXCEPT !.name = "getitem"]
    /\ Reads
\* list(l): Sequence.__iter__ reads l[0], l[1], ... until IndexError
ParamList__iter__(self) ==
    /\ self \in Lists(heap)
    /\ ret' = [NoRet EXCEPT !.op = "iter", !.self = self, !.status = "ok",
                            !.entries = [i \in DOMAIN heap[self]._contents |->
                                           _unwrap_child(heap, heap[self]._contents[i])]]
    /\ last' = [NoOp EXCEPT !.name = "iter"]
    /\ Reads
\* p.name for the field at position i
ParamDataclass__getattribute__(self, i) ==
    /\ self \in Structs(heap) /\ i \in DOMAIN FieldNames
    /\ heap[self]._contents[i] # None
    /\ ret' = Named("getattribute", self, FieldNames[i], "ok", "field",
                    _unwrap_child(heap, heap[self]._contents[i]))
    /\ last' = [NoOp EXCEPT !.name = "getattribute"]
    /\ Reads
\* child_last_updated(child_name) for the child at position i of the contents: the
\* index of a list, the key of a dictionary, the name of a field
_get_wrapped_child(h, self, i) == h[self]._contents[i]
ParamData_child_last_updated(self, i) ==
    /\ self \in Live(heap) /\ IsContainer(heap, self)
    /\ i \in DOMAIN heap[self]._contents
    /\ _get_wrapped_child(heap, self, i) # None
    /\ ret' = [NoRet EXCEPT !.op = "child_last_updated", !.self = self, !.status = "ok",
                  !.index = IF heap[self].cls = ListCls THEN i ELSE 0,
                  !.name = IF heap[self].cls = ListCls THEN "" ELSE heap[self].keys[i],
                  !.time = heap[_get_wrapped_child(heap, self, i)]._last_updated]
    /\ last' = [NoOp EXCEPT !.name = "child_last_updated"]
    /\ Reads

\* Empty lists and dictionaries and data classes with default values are built,
\* values are stored in them by index, by insertion, by key and by attribute, and are
\* read back
StoredValues(h, self) == GraphValues(h, self) \cup {OtherValue}
NextWrapped ==
    \/ AccessStep /\ ret' = NoRet /\ ParamList__init__(<<>>)
    \/ AccessStep /\ ret' = NoRet /\ ParamDict__init__(<<>>, <<>>)
    \/ AccessStep /\ ret' = NoRet /\ SimpleParam__init__(PlainValue(DEFAULT_NUMBER))
    \/ AccessStep /\ \E self \in Nodes, index \in 1..MaxLen :
         \E value \in StoredValues(heap, self) : ParamList_set_index(self, index, value)
    \/ AccessStep /\ \E self \in Nodes, index \in 0..MaxLen :
         \E value \in StoredValues(heap, self) : ParamList_insert_value(self, index, value)
    \/ AccessStep /\ \E self \in Nodes, key \in Keys :
         \E value \in StoredValues(heap, self) : ParamDict_set_item(self, key, value)
    \/ AccessStep /\ \E self \in Nodes, i \in DOMAIN FieldNames :
         \E value \in StoredValues(heap, self) : SimpleParam_set_field(self, i, value)
    \/ \E self \in Nodes, index \in 1..MaxLen : ParamList__getitem__(self, index)
    \/ \E self \in Nodes, key \in Keys : ParamDict_get_item(self, key)
    \/ \E self \in Nodes, i \in DOMAIN FieldNames : ParamDataclass__getattribute__(self, i)
    \/ \E self \in Nodes : ParamList__iter__(self)
    \/ \E self \in Nodes, i \in 1..MaxLen : ParamData_child_last_updated(self, i)

SpecWrapped == Init /\ [][NextWrapped]_vars

(* ---------------------------------------------------------------------- *)
(* to_json of the objects                                                  *)
(* ---------------------------------------------------------------------- *)
\* self.to_json()
ParamData_to_json(self) ==
    /\ self \in Live(heap) /\ IsContainer(heap, self)
    /\ ret' = [NoRet EXCEPT !.op = "to_json", !.self = self, !.status = "ok",
                            !.data = to_json(Obj(heap, self))]
    /\ last' = [NoOp EXCEPT !.name = "to_json"]
    /\ Reads

\* Lists, dictionaries and data classes are built and changed, and to_json() is
\* called on each of them
NextPortable ==
    \/ AccessStep /\ ret' = NoRet
         /\ \E items \in {<<>>} \cup {<<value>> : value \in GraphValues(heap, None)} :
              ParamList__init__(items)
    \/ AccessStep /\ ret' = NoRet /\ ParamDict__init__(<<>>, <<>>)
    \/ AccessStep /\ ret' = NoRet
         /\ \E value \in GraphValues(heap, None) : SimpleParam__init__(value)
    \/ AccessStep /\ \E self \in Nodes, key \in Keys :
         \E value \in StoredValues(heap, self) : ParamDict_set_item(self, key, value)
    \/ AccessStep /\ \E self \in Nodes, i \in DOMAIN FieldNames :
         \E value \in StoredValues(heap, self) : SimpleParam_set_field(self, i, value)
    \/ \E self \in Nodes : ParamData_to_json(self)

SpecPortable == Init /\ [][NextPortable]_vars

(* ---------------------------------------------------------------------- *)
(* Commits and loads of raw JSON                                           *)
(* ---------------------------------------------------------------------- *)
\* A string that is no JSON document
NotJson == [invalid |-> "Initial commit"]
IsStr(x) == "t" \notin DOMAIN x
\* _encode(obj, raw_json=True) that stores json.dumps(obj), the string as a JSON string
_encode_raw_json_dumped(obj) == _compress(json_dumps(Scalar("str", obj)))
\* _encode(obj, raw_json=True)
_encode_raw_json(obj) == _compress(obj)

\* ParamDB.commit(message, data, raw_json=True)
ParamDB_commit_raw_json(db, message, data) ==
    /\ ~Busy(db)
    /\ Len(log) < MaxCommits
    /\ \E reads \in ClockReads(1) :
         LET snapshot == [id |-> NextId(log), message |-> message,
                          timestamp |-> reads[1], data |-> _encode_raw_json(data)]
             entry == CommitEntry(snapshot.id, snapshot.message, snapshot.timestamp)
         IN /\ log' = Append(log, snapshot)
            /\ returned' = Append(returned, [entry |-> entry, tree |-> data,
                                             payload |-> snapshot.data])
            /\ now' = reads[1]
            /\ ret' = [Result("commit_raw_json", db, None, "ok") EXCEPT
                         !.message = message, !.entry = entry]
    /\ last' = NoOp /\ UNCHANGED <<heap, hist>>

\* The strings committed: the one the last load(raw_json=True) returned, and others
RawStrings == {NotJson}
                 \cup IF ret.op = "load_raw_json" /\ ret.status = "ok"
                      THEN {ret.data} ELSE {}

\* Objects are built, objects and strings are committed, and commits are loaded as
\* objects and as strings
NextRaw ==
    \/ \E items \in {<<>>} \cup {<<NodeValue(n)>> : n \in Roots(heap)} :
         /\ ParamList__init__(items) /\ OneTree' /\ now' = now /\ ret' = NoRet
         /\ UNCHANGED <<steps, log, hist, returned, _param_classes>>
    \/ /\ SimpleParam__init__(PlainValue(OtherNumber))
       /\ OneTree' /\ now' = now /\ ret' = NoRet
       /\ UNCHANGED <<steps, log, hist, returned, _param_classes>>
    \/ \E obj \in Committable(heap) :
         ParamDB_commit("db1", "Initial commit", obj)
            /\ UNCHANGED <<steps, _param_classes>>
    \/ \E data \in RawStrings :
         ParamDB_commit_raw_json("db1", "Raw commit", data)
            /\ UNCHANGED <<steps, _param_classes>>
    \/ \E commit_id \in {None} \cup (1..MaxCommits) :
         ParamDB_load("db1", commit_id) /\ UNCHANGED <<steps, _param_classes>>
    \/ \E commit_id \in {None} \cup (1..MaxCommits) :
         ParamDB_load_raw_json("db1", commit_id) /\ UNCHANGED <<steps, _param_classes>>

SpecRaw == Init /\ [][NextRaw]_vars

(* ---------------------------------------------------------------------- *)
(* Containers stored into themselves                                       *)
(* ---------------------------------------------------------------------- *)
\* The objects the loop of root visits from n in at most k steps
RECURSIVE ParentChain(_, _, _)
ParentChain(h, n, k) ==
    IF k = 0 \/ h[n]._parent = None THEN {}
    ELSE {h[n]._parent} \cup ParentChain(h, h[n]._parent, k - 1)
\* The loop of root from n comes back to an object it has visited
Cyclic(h, n) == \E m \in {n} \cup ParentChain(h, n, MaxNodes) :
                   m \in ParentChain(h, m, MaxNodes)
NeverReturns == "never returns"
\* self.root, whose loop ends only at an object without parent
ParamData_root_loop(self) ==
    /\ self \in Live(heap)
    /\ ret' = IF Cyclic(heap, self)
              THEN Accessed("root", self,
                            [status |-> NeverReturns, error |-> "", obj |-> None], TRUE)
              ELSE Accessed("root", self,
                            [status |-> "ok", error |-> "", obj |-> root(heap, self)],
                            TRUE)
    /\ last' = [NoOp EXCEPT !.name = "root"]
    /\ Reads

\* The values the application stores when nothing keeps it from storing a container
\* into itself or into an object it holds: a plain value, or any container
AnyValues(h) ==
    {NodeValue(n) : n \in {m \in Live(h) : IsContainer(h, m)}}
        \cup {PlainValue(p) : p \in GraphPlain}

\* Lists and dictionaries are built, any container is stored into any of them, items
\* are deleted, and the root of any object is asked for
NextCycle ==
    \/ AccessStep /\ ret' = NoRet /\ ParamList__init__(<<>>)
    \/ AccessStep /\ ret' = NoRet /\ ParamDict__init__(<<>>, <<>>)
    \/ AccessStep /\ ret' = NoRet /\ \E self \in Nodes, index \in 0..MaxLen :
         \E value \in AnyValues(heap) : ParamList_insert(self, index, value)
    \/ AccessStep /\ ret' = NoRet /\ \E self \in Nodes, key \in Keys :
         \E value \in AnyValues(heap) : ParamDict__setitem__(self, key, value)
    \/ AccessStep /\ ret' = NoRet /\ \E self \in Nodes, index \in 1..MaxLen :
         ParamList__delitem__(self, index)
    \/ \E self \in Nodes : ParamData_root_loop(self)

SpecCycle == Init /\ [][NextCycle]_vars

\* The objects the application stores into container self: any container that does
\* not hold self
SharedObjects(h, self) == {value \in SharedValues(h, self) : value.n # None}

\* An object is stored into lists and dictionaries, more than once, and taken out of
\* them again
NextRemove ==
    \/ SliceStep /\ \E items \in {<<>>} \cup {<<value>> : value \in SharedObjects(heap, None)} :
         ParamList__init__(items)
    \/ SliceStep /\ \E self \in Nodes, index \in 0..MaxLen :
         \E value \in SharedObjects(heap, self) : ParamList_insert(self, index, value)
    \/ SliceStep /\ \E self \in Nodes, index \in 1..MaxLen : ParamList__delitem__(self, index)
    \/ SliceStep /\ ParamDict__init__(<<>>, <<>>)
    \/ SliceStep /\ \E self \in Nodes, key \in Keys :
         \E value \in SharedObjects(heap, self) : ParamDict__setitem__(self, key, value)
    \/ SliceStep /\ \E self \in Nodes, key \in Keys : ParamDict__delitem__(self, key)

SpecRemove == Init /\ [][NextRemove]_vars

\* Lists are built from objects and plain values and sliced, and items of the lists
\* and of the slices are assigned and deleted: only a slice holds an object that
\* another list holds
NextSliceItems ==
    \/ SliceStep /\ \E items \in {<<>>} \cup {<<value>> : value \in GraphValues(heap, None)} :
         ParamList__init__(items)
    \/ SliceStep /\ \E self \in Nodes, lo \in 1..(MaxLen + 1), hi \in 0..MaxLen :
         ParamList__getitem__slice(self, lo, hi)
    \/ SliceStep /\ \E self \in Nodes, index \in 1..MaxLen :
         \E value \in {PlainValue(p) : p \in GraphPlain} :
            ParamList__setitem__(self, index, value)
    \/ SliceStep /\ \E self \in Nodes, index \in 1..MaxLen : ParamList__delitem__(self, index)

SpecSliceItems == Init /\ [][NextSliceItems]_vars

(* ---------------------------------------------------------------------- *)
(* Operations on lists and dictionaries that raise                         *)
(* ---------------------------------------------------------------------- *)
\* Python indexes, negative ones counted from the end: the first and the last item,
\* one past the last and one before the first of the longest list; and the position
\* an index denotes
PyIndexes == {0 - MaxLen - 1, 0 - 1, 0, MaxLen}
Position(len, index) == IF index >= 0 THEN index + 1 ELSE len + index + 1
\* The positions the slice [::step] selects in a list of len items
Selects(len, step) == {i \in 1..len : (i - 1) % step = 0}
\* The right-hand side of an assignment to a slice: an iterable of values, or a number
Iterable(items) == [iterable |-> TRUE, items |-> items]
NotIterable == [iterable |-> FALSE, items |-> <<>>]
\* What an operation on a list gave: the index, or the step of the extended slice, the
\* kind of the value given and
\* the number of its items, and "ok" or the error raised
Tried(op, self, index, value, status) ==
    [NoRet EXCEPT !.op = op, !.self = self, !.index = index, !.status = status,
                  !.kind = IF value.iterable THEN "iterable" ELSE "number",
                  !.count = Len(value.items)]
Raised(op, self, index, error) == Tried(op, self, index, NotIterable, error)
\* The operation raised before it changed anything
Unchanged(error) ==
    /\ last' = [NoOp EXCEPT !.name = error]
    /\ Reads

\* The index denotes no item of list self
OutOfRange(self, index) ==
    self \in Lists(heap) /\
    Position(Len(heap[self]._contents), index) \notin DOMAIN heap[self]._contents
\* l[index]: self._contents[index] raises IndexError
ParamList_get(self, index) ==
    /\ self \in Lists(heap)
    /\ LET contents == heap[self]._contents
           i == Position(Len(contents), index)
       IN IF i \in DOMAIN heap[self]._contents
          THEN /\ ret' = [Raised("getitem", self, index, "ok") EXCEPT
                              !.obj = _unwrap_child(heap, contents[i]).n,
                              !.data = _unwrap_child(heap, contents[i]).p]
               /\ last' = [NoOp EXCEPT !.name = "getitem"]
               /\ Reads
          ELSE ret' = Raised("getitem", self, index, "IndexError") /\ Unchanged("IndexError")

\* l[index] = value: old_wrapped_value = self._contents[index] raises IndexError
\* before the value is wrapped
ParamList_set(self, index, value) ==
    /\ self \in Lists(heap)
    /\ LET i == Position(Len(heap[self]._contents), index)
       IN IF i \in DOMAIN heap[self]._contents
          THEN /\ AttrStep /\ ParamList__setitem__(self, i, value)
               /\ ret' = NoRet
          ELSE ret' = Raised("setitem", self, index, "IndexError") /\ Unchanged("IndexError")

\* del l[index]: old_wrapped_value = self._contents[index] raises IndexError
ParamList_del(self, index) ==
    /\ self \in Lists(heap)
    /\ LET i == Position(Len(heap[self]._contents), index)
       IN IF i \in DOMAIN heap[self]._contents
          THEN /\ AttrStep /\ ParamList__delitem__(self, i)
               /\ ret' = NoRet
          ELSE ret' = Raised("delitem", self, index, "IndexError") /\ Unchanged("IndexError")

\* l[lo - 1:hi] = value: the comprehension over value raises TypeError when value is
\* not iterable, after the old items were read and before anything is wrapped
ParamList_set_slice(self, lo, hi, value) ==
    /\ self \in Lists(heap)
    /\ lo \in 1..(Len(heap[self]._contents) + 1)
    /\ hi \in (lo - 1)..Len(heap[self]._contents)
    /\ IF value.iterable
       THEN /\ AttrStep /\ ParamList__setitem__slice(self, lo, hi, value.items)
            /\ ret' = NoRet
       ELSE /\ ret' = Tried("setslice", self, lo - 1, value, "TypeError")
            /\ Unchanged("TypeError")

\* The objects after the items of a slice assignment were processed as children and
\* the assignment to the inner list raised
_setitem_raised_after_add(h, self, values, reads) ==
    LET w == WrapAll(h, values, reads, 1)
    IN Collect(AddAll(w.heap, self, w.children, reads, 1))
\* The objects after wrapped_values = [self._wrap_child(item) for item in value] and
\* the ValueError of self._contents[index] = wrapped_values: the wrappers are dropped
_setitem_raised(h, self, values, reads) ==
    Collect(WrapAll(h, values, reads, 1).heap)

\* l[::step] = value for step > 1: the inner list raises ValueError when the number of
\* values is not the number of positions, after the values were wrapped
ParamList_set_extended(self, step, value) ==
    /\ self \in Lists(heap)
    /\ Cardinality(FreeIds(heap)) >= PlainCount(value.items)
    /\ LET contents == heap[self]._contents
           positions == Selects(Len(contents), step)
           nv == Len(value.items)
           no == Cardinality(positions)
           Nth(k) == 1 + (k - 1) * step
       IN IF ~value.iterable
          THEN /\ ret' = Tried("setextended", self, step, value, "TypeError")
               /\ Unchanged("TypeError")
          ELSE IF nv # no
          THEN \E reads \in ClockReads(nv) :
                  /\ heap' = _setitem_raised(heap, self, value.items, reads)
                  /\ now' = IF nv = 0 THEN now ELSE reads[nv]
                  /\ ret' = Tried("setextended", self, step, value, "ValueError")
                  /\ last' = [NoOp EXCEPT !.name = "ValueError"]
                  /\ UNCHANGED <<steps, log, hist, returned, _param_classes>>
          ELSE \E reads \in ClockReads(3 * nv) :
                  LET old_wrapped_values == [k \in 1..no |-> contents[Nth(k)]]
                      w == WrapAll(heap, value.items, reads, 1)
                      h1 == [w.heap EXCEPT ![self]._contents =
                                [i \in DOMAIN contents |->
                                   IF i \in positions THEN w.children[1 + (i - 1) \div step]
                                   ELSE contents[i]]]
                      h2 == RemoveAll(h1, self, old_wrapped_values, Shift(reads, nv), 1)
                      h3 == AddAll(h2, self, w.children, Shift(reads, 2 * nv), 1)
                      hb == AddAll(h2, self, SubSeq(w.children, 1, nv - 1),
                                   Shift(reads, 2 * nv), 1)
                  IN /\ nv > 0
                     /\ AttrStep
                     /\ heap' = Collect(h3)
                     /\ now' = reads[Len(reads)]
                     /\ ret' = NoRet
                     /\ last' = Done("setslice", self,
                                     IF PlainCount(value.items) > 0 THEN reads[1]
                                     ELSE reads[nv + 1],
                                     AddWalk(hb, self, w.children[nv], reads[Len(reads)]))

\* The values of the lists and of the right-hand sides: any value, followed by numbers
FailItems(h, self) ==
    {<<>>} \cup {<<value>> \o [i \in 1..k |-> PlainValue(DEFAULT_NUMBER)] :
                    value \in GraphValues(h, self), k \in 0..(MaxLen - 1)}
\* The steps of the extended slices of the lists
ExtendedSteps == 2..MaxLen

\* Lists and dictionaries are built, items are read, assigned and deleted at any
\* index and key, slices are emptied or assigned a number, and extended slices are
\* assigned any number of values; a call that raises follows a call that did not
NextFail ==
    \/ AttrStep /\ ret' = NoRet /\ \E items \in FailItems(heap, None) : ParamList__init__(items)
    \/ AttrStep /\ ret' = NoRet /\ \E value \in GraphValues(heap, None), key \in Keys :
         ParamDict__init__(<<key>>, <<value>>)
    \/ EqStep /\ \E self \in Nodes, index \in PyIndexes : ParamList_get(self, index)
    \/ \E self \in Nodes, index \in PyIndexes :
         \E value \in {PlainValue(p) : p \in GraphPlain} :
            (OutOfRange(self, index) => EqStep) /\ ParamList_set(self, index, value)
    \/ \E self \in Nodes, index \in PyIndexes :
         (OutOfRange(self, index) => EqStep) /\ ParamList_del(self, index)
    \/ EqStep /\ \E self \in Nodes, key \in Keys : ParamDict_get_item(self, key)
    \/ \E self \in Nodes, key \in Keys :
         /\ ParamDict_del_item(self, key)
         /\ IF ContainsKey(heap, self, key) THEN AttrStep
            ELSE EqStep /\ UNCHANGED <<steps, log, hist, returned, _param_classes>>
    \/ \E self \in Nodes, lo \in 1..(MaxLen + 1), hi \in 0..MaxLen :
         \/ EqStep /\ ParamList_set_slice(self, lo, hi, NotIterable)
         \/ ParamList_set_slice(self, lo, hi, Iterable(<<>>))
    \/ \E self \in Lists(heap), step \in ExtendedSteps :
         \/ EqStep /\ ParamList_set_extended(self, step, NotIterable)
         \/ \E items \in FailItems(heap, self) :
               /\ Len(items) # Cardinality(Selects(Len(heap[self]._contents), step))
                     => EqStep
               /\ ParamList_set_extended(self, step, Iterable(items))

SpecFail == Init /\ [][NextFail]_vars

(* ---------------------------------------------------------------------- *)
(* The objects load() creates                                              *)
(* ---------------------------------------------------------------------- *)
\* The number of ParamData objects of the value x
RECURSIVE Size(_)
Size(x) ==
    IF ~IsParamData(x) THEN 0
    ELSE IF x.t = WrapperCls THEN 1
    ELSE LET RECURSIVE Sum(_)
             Sum(i) == IF i > Len(x.items) THEN 0 ELSE Size(x.items[i].x) + Sum(i + 1)
         IN 1 + Sum(1)

\* An object the program already has, when there is one equal to x in every respect
__new__or_existing(h, x) ==
    IF \E n \in Live(h) : Obj(h, n) = x
    THEN CHOOSE n \in Live(h) : Obj(h, n) = x
    ELSE Alloc(h)
\* self = cls.__new__(cls) in from_json: an object that did not exist
__new__(h, x) == Alloc(h)

\* The objects after _decode_json has built the list, dictionary or wrapper x: the
\* objects it holds are decoded first, then from_json makes the new object (cls.__new__)
\* and becomes the parent of the objects it holds
RECURSIVE New(_, _)
New(h, x) ==
    IF x.t = WrapperCls
    THEN LET self == __new__(h, x)
         IN [heap |-> [h EXCEPT ![self] =
                         [FreeNode EXCEPT !.cls = WrapperCls, !._last_updated = x.lu,
                                          !.value = x.items[1].x]],
             self |-> self]
    ELSE LET RECURSIVE All(_, _)
             All(hh, i) ==
                 IF i > Len(x.items) THEN [heap |-> hh, children |-> <<>>]
                 ELSE LET child == New(hh, x.items[i].x)
                          rest == All(child.heap, i + 1)
                      IN [heap |-> rest.heap, children |-> <<child.self>> \o rest.children]
             decoded == All(h, 1)
             self == __new__(decoded.heap, x)
         IN [heap |-> [n \in Nodes |->
                         IF n = self
                         THEN [FreeNode EXCEPT
                                 !.cls = x.t, !._last_updated = x.lu,
                                 !._contents = decoded.children,
                                 !.keys = IF x.t = DictCls
                                          THEN [i \in DOMAIN x.items |-> x.items[i].k]
                                          ELSE <<>>]
                         ELSE IF n \in Range(decoded.children)
                         THEN [decoded.heap[n] EXCEPT !._parent = self]
                         ELSE decoded.heap[n]],
             self |-> self]

\* ParamDB.load(commit_id) of a commit of a list or a dictionary, with the objects it
\* creates
ParamDB_load_objects(db, commit_id) ==
    /\ ~Busy(db)
    /\ \E reads \in ClockReads(1) :
         LET rows == _select_commit(log, commit_id)
             data == _decode(rows[1].data, reads[1])
             new == New(heap, data)
         IN IF rows = <<>>
            THEN /\ ret' = Result("load", db, commit_id, "IndexError")
                 /\ UNCHANGED <<heap, now>>
            ELSE /\ Cardinality(FreeIds(heap)) >= Size(data)
                 /\ heap' = new.heap
                 /\ now' = reads[1]
                 /\ ret' = [Result("load", db, commit_id, "ok") EXCEPT
                              !.data = data, !.obj = new.self]
    /\ last' = [NoOp EXCEPT !.name = "load"]
    /\ UNCHANGED <<log, hist, returned>>

\* Lists are built and committed, commits are loaded, and numbers are inserted into the
\* lists built and into the lists loaded; ret keeps what the last commit or load gave
NextFresh ==
    \/ Step /\ UNCHANGED <<ret, log, hist, returned>>
            /\ \E items \in {<<>>} \cup {<<value>> : value \in GraphValues(heap, None)} :
                  ParamList__init__(items)
    \/ Step /\ \E n \in Roots(heap) : ParamDB_commit("db1", "Initial commit", Obj(heap, n))
    \/ Step /\ \E commit_id \in {None} \cup 1..MaxCommits :
                  ParamDB_load_objects("db1", commit_id)
    \/ Step /\ UNCHANGED <<ret, log, hist, returned>>
            /\ \E self \in Nodes, index \in 0..MaxLen :
                  ParamList_insert(self, index, PlainValue(DEFAULT_NUMBER))

SpecFresh == Init /\ [][NextFresh]_vars

(* ---------------------------------------------------------------------- *)
(* Properties of the parameter data objects                                *)
(* ---------------------------------------------------------------------- *)
\* The chain of parents of n
RECURSIVE Ancestors(_, _)
Ancestors(h, n) ==
    IF h[n]._parent = None THEN {} ELSE {h[n]._parent} \cup Ancestors(h, h[n]._parent)

\* C2: the last_updated of every object is at least the last_updated of every object
\* below it, after any constructions and mutations, under a clock that never goes
\* backwards but may return the same value twice.
C2_TimestampInvariant ==
    \A n \in Live(heap) : \A a \in Ancestors(heap, n) :
        heap[a]._last_updated >= heap[n]._last_updated

\* C3: after a mutating operation on a container, the container and all its ancestors
\* have a last_updated at least the clock value the operation read first.
C3_MutationReachesRoot ==
    last.target # None =>
        \A a \in {last.target} \cup Ancestors(heap, last.target) :
            heap[a]._last_updated >= last.start

\* C4: _update_last_updated(node) leaves node with the new timestamp, and when its walk
\* stops at an object, that object and every ancestor above it have a last_updated at
\* least the new timestamp.
C4_EarlyExitLeavesNoStaleAncestor ==
    last.node # None =>
        /\ heap[last.node]._last_updated = last.new
        /\ last.stop # None =>
              \A a \in {last.stop} \cup Ancestors(heap, last.stop) :
                  heap[a]._last_updated >= last.new

(* ---------------------------------------------------------------------- *)
(* Properties of the database                                              *)
(* ---------------------------------------------------------------------- *)
Ok(op) == ret.op = op /\ ret.status = "ok"
Loaded == Ok("load")
\* The commit a call with the commit_id of ret is about
Selected == IF ret.id = None THEN Len(returned) ELSE ret.id

\* The tree x as the database keeps it, loaded at time t: a field declared init=False
\* is not stored and has the default of the class in a new wrapper, and the keys of a
\* dict are strings
RECURSIVE AsStored(_, _)
AsStored(x, t) ==
    [x EXCEPT !.items = [i \in DOMAIN x.items |->
        IF x.t = StructCls /\ ~IsInitField(x.items[i].k)
        THEN Item(x.items[i].k, x.items[i].kt, WrapValue(DEFAULT_NUMBER, t))
        ELSE Item(x.items[i].k,
                  IF x.t = "dict" THEN "str" ELSE x.items[i].kt,
                  AsStored(x.items[i].x, t))]]

C5_CommitsAreImmutable ==
    /\ Len(log) = Len(returned)
    /\ \A i \in DOMAIN returned :
          /\ returned[i].entry.id = i
          /\ CommitEntry(log[i].id, log[i].message, log[i].timestamp) = returned[i].entry
          /\ log[i].data = returned[i].payload
    /\ Loaded /\ ret.id # None => ret.data = _decode(returned[ret.id].payload, now)
    /\ Ok("load_commit_entry") /\ ret.id # None => ret.entry = returned[ret.id].entry
    /\ Ok("commit_history_with_data") /\ ret.count = Len(log) =>
          /\ Len(ret.entries) = Len(returned)
          /\ \A i \in DOMAIN ret.entries :
                ret.entries[i] =
                    [id |-> returned[i].entry.id, message |-> returned[i].entry.message,
                     timestamp |-> returned[i].entry.timestamp,
                     data |-> _decode(returned[i].payload, now)]

\* The second ParamDB object loads the first commit after a later commit and a change
\* of the object that was committed
C5_Witness ==
    /\ Loaded /\ ret.db = "db2" /\ ret.id = 1
    /\ \E n \in Roots(heap) : /\ Obj(heap, n).t = returned[1].tree.t
                              /\ ~PyEq(Obj(heap, n), returned[1].tree)
    /\ PyEq(ret.data, returned[1].tree)

\* Python's xs[start:end]: the items at the positions start <= i < end of 0..len-1,
\* a negative index counted from the end
PySlice(xs, start, end) ==
    LET lo == IF start = <<>> THEN 0
              ELSE IF start[1] < 0 THEN start[1] + Len(xs) ELSE start[1]
        hi == IF end = <<>> THEN Len(xs)
              ELSE IF end[1] < 0 THEN end[1] + Len(xs) ELSE end[1]
    IN SelectItems(xs, {i \in DOMAIN xs : lo <= i - 1 /\ i - 1 < hi})
AllEntries == [i \in DOMAIN log |->
                 CommitEntry(log[i].id, log[i].message, log[i].timestamp)]
AllEntriesWithData ==
    [i \in DOMAIN log |-> CommitEntryWithData(log[i].id, log[i].message,
                              log[i].timestamp, _decode(log[i].data, now))]

\* C6: when no commit was made while it ran, commit_history(start, end) is
\* all_entries[start:end] and commit_history_with_data(start, end) the same with the
\* data, in ascending order of id
C6_HistoryIsPythonSlice ==
    /\ Ok("commit_history") /\ ret.count = Len(log) =>
          ret.entries = PySlice(AllEntries, ret.start, ret.end)
    /\ Ok("commit_history_with_data") /\ ret.count = Len(log) =>
          ret.entries = PySlice(AllEntriesWithData, ret.start, ret.end)
    /\ ret.op \in {"commit_history", "commit_history_with_data"} =>
          /\ ret.status = "ok"
          /\ \A i, j \in DOMAIN ret.entries : i < j => ret.entries[i].id < ret.entries[j].id
          /\ ret.count = 0 /\ Len(log) = 0 => ret.entries = <<>>

\* A history from a start before the first commit to a negative end
C6_Witness ==
    /\ Ok("commit_history") /\ Len(log) = 2 /\ ret.count = 2
    /\ ret.start # <<>> /\ ret.start[1] < 0 - Len(log)
    /\ ret.end = <<-1>>
    /\ Len(ret.entries) = 1 /\ ret.entries[1].id = 1

\* C7: the ids of the commits are 1..num_commits, num_commits is the number of
\* commits, the k-th commit made returns id k and its message, and no call but a
\* commit that returns changes num_commits
C7_IdsAreOneToNumCommits ==
    /\ [](/\ {log[i].id : i \in DOMAIN log} = 1..Len(log)
          /\ ret.op = "num_commits" => ret.status = "ok" /\ ret.count = Len(log)
          /\ Ok("commit") => /\ ret.entry.id = Len(returned)
                             /\ ret.entry.message = ret.message
                             /\ log[ret.entry.id].message = ret.message)
    /\ [][IF ret'.op = "commit" /\ ret'.status = "ok" /\ returned' # returned
          THEN Len(log') = Len(log) + 1
          ELSE Len(log') = Len(log)]_vars

\* The second commit returned id 2 and its message
C7_Witness ==
    /\ Ok("commit") /\ ret.entry.id = 2 /\ ret.entry.message = "Commit 1"
    /\ returned[1].entry.message = "Initial commit"

RECURSIVE HasNoCodec(_, _)
HasNoCodec(x, stored_only) ==
    \/ x.t = NotJSONSerializable.t
    \/ \E i \in DOMAIN x.items :
          /\ stored_only /\ x.t = StructCls => IsInitField(x.items[i].k)
          /\ HasNoCodec(x.items[i].x, stored_only)

\* What C9 says of a commit of obj when HasNoCodec(obj, stored_only) tells whether it
\* can be encoded
CommitIsAtomic(stored_only) ==
    \A db \in DBs, message \in Messages, obj \in Committable(heap) \cup CommitPlain :
        ret'.op = "commit" /\ ParamDB_commit(db, message, obj) =>
            IF HasNoCodec(obj, stored_only)
            THEN ret'.status = "TypeError" /\ log' = log /\ returned' = returned
            ELSE /\ ret'.status = "ok"
                 /\ ret'.entry.id = Len(log) + 1
                 /\ Len(log') = Len(log) + 1

NoSuchCommit(commit_id) ==
    IF commit_id = None THEN log = <<>> ELSE log = <<>> \/ commit_id > Len(log)

\* C10: load() and load_commit_entry() of a commit that does not exist raise
\* IndexError and leave the log as it is
C10_NoSuchCommitIsIndexError ==
    [][\A db \in DBs, commit_id \in CommitIds :
          /\ ret'.op = "load" /\ ParamDB_load(db, commit_id)
                /\ NoSuchCommit(commit_id) =>
                   ret'.status = "IndexError" /\ log' = log /\ returned' = returned
          /\ ret'.op = "load_commit_entry" /\ ParamDB_load_commit_entry(db, commit_id)
                /\ NoSuchCommit(commit_id) =>
                   ret'.status = "IndexError" /\ log' = log /\ returned' = returned]_vars

\* load_commit_entry(3) failed when there were two commits
C10_Witness ==
    /\ ret.op = "load_commit_entry" /\ ret.status = "IndexError"
    /\ ret.id # None /\ log # <<>> /\ ret.id > Len(log)
\* The classes of the objects of x that are stored
RECURSIVE StoredClasses(_)
StoredClasses(x) ==
    (IF x.t \in {ListCls, DictCls, StructCls} THEN {x.t} ELSE {})
        \cup UNION {StoredClasses(x.items[i].x) :
                      i \in {j \in DOMAIN x.items :
                               x.t = StructCls => IsInitField(x.items[j].k)}}

\* C11: a load of a commit that holds an object of a class absent from the classes
\* known fails with the ValueError that names an absent class of the commit (the
\* class of the committed object when that one is absent); load(raw_json=True) gives
\* the stored text whatever the classes known; the rows stay as committed; and with
\* all its classes known the commit loads
C11_UnknownClass ==
    /\ \A i \in DOMAIN log : log[i].data = returned[i].payload
    /\ ret.op = "load" /\ ret.status # "IndexError" =>
          LET tree == returned[Selected].tree
              unknown == StoredClasses(tree) \ _param_classes
          IN /\ unknown # {} =>
                   /\ ret.status = "ValueError" /\ ret.class_name \in unknown
                   /\ tree.t \in unknown => ret.class_name = tree.t
             /\ unknown = {} =>
                   ret.status = "ok" /\ PyEq(ret.data, AsStored(tree, now))
    /\ ret.op = "load_raw_json" /\ ret.status # "IndexError" =>
          ret.status = "ok" /\ ret.data = _decompress(returned[Selected].payload)

\* load() of a committed SimpleParam while SimpleParam is not known
C11_Witness ==
    /\ ret.op = "load" /\ ret.status = "ValueError" /\ ret.class_name = StructCls
    /\ returned[Selected].tree.t = StructCls /\ StructCls \notin _param_classes

\* C12: the list commit_history(start, end) or commit_history_with_data(start, end)
\* returns is all_entries[start:end] of the log as it was at one instant between the
\* call and the return, also when another ParamDB object commits meanwhile
C12_HistoryIsSliceAtOneInstant ==
    ret.op \in {"commit_history", "commit_history_with_data"} /\ ret.status = "ok" =>
        \E k \in ret.count..Len(log) :
            ret.entries = PySlice(SubSeq(IF ret.op = "commit_history" THEN AllEntries
                                         ELSE AllEntriesWithData, 1, k),
                                  ret.start, ret.end)

(* ---------------------------------------------------------------------- *)
(* Properties of the parents                                               *)
(* ---------------------------------------------------------------------- *)
\* The step stores the object x into the existing container self (the name and the
\* target that the operation records in last are compared first)
StoresInto(self, x) ==
    /\ last'.target = self
    /\ \/ /\ last'.name = "setitem"
          /\ \E index \in 1..MaxLen : ParamList__setitem__(self, index, NodeValue(x))
       \/ /\ last'.name = "insert"
          /\ \E index \in 0..MaxLen : ParamList_insert(self, index, NodeValue(x))
       \/ /\ last'.name \in {"setkey", "newkey"}
          /\ \E key \in Keys : ParamDict__setitem__(self, key, NodeValue(x))
       \/ /\ last'.name = "setattr"
          /\ \E i \in DOMAIN FieldNames : SimpleParam__setattr__(self, i, NodeValue(x))
\* The step constructs a container (the object Alloc(heap)) from the object x
ConstructsFrom(x) ==
    \/ last'.name = "ParamList" /\ ParamList__init__(<<NodeValue(x)>>)
    \/ last'.name = "ParamDict"
          /\ \E ks \in KeySeqs(1) : ParamDict__init__(ks, <<NodeValue(x)>>)
    \/ last'.name = "SimpleParam" /\ SimpleParam__init__(NodeValue(x))
Holds(h, a, x) == x \in Range(h[a]._contents)

\* C13: an object stored into a container, by construction, field assignment, item
\* set or insert, has that container as its parent afterwards, whatever containers
\* held it before
C13_LastAssignmentWins ==
    [][\A x \in {n \in Live(heap) : IsContainer(heap, n)} :
          /\ \A self \in Nodes : StoresInto(self, x) => heap'[x]._parent = self
          /\ ConstructsFrom(x) => heap'[x]._parent = Alloc(heap)]_vars

\* An object held by two containers, the second a new list; its parent is the second
C13_Witness ==
    \E x, a, b \in Live(heap) :
        /\ a # b /\ IsContainer(heap, x) /\ Holds(heap, a, x) /\ Holds(heap, b, x)
        /\ last.name = "ParamList" /\ heap[b].cls = ListCls
        /\ heap[x]._parent = b

\* C14: when an object x that container a holds is stored into another container, a
\* does not hold x afterwards
C14_SingleParent ==
    [][\A x \in Nodes, a \in Nodes :
          /\ a \in Live(heap) /\ Holds(heap, a, x)
          /\ \/ \E self \in Nodes \ {a} : StoresInto(self, x)
             \/ ConstructsFrom(x)
          => ~Holds(heap', a, x)]_vars

\* C14, amended: when an object x that container a holds is stored into another
\* container b, b and not a is the parent of x afterwards, and both a and b hold x
C14_ParentLeavesFirstContainer ==
    [][\A x \in Nodes, a \in Nodes :
          a \in Live(heap) /\ Holds(heap, a, x) =>
             /\ \A b \in Nodes \ {a} :
                   StoresInto(b, x) =>
                      heap'[x]._parent = b /\ Holds(heap', a, x) /\ Holds(heap', b, x)
             /\ ConstructsFrom(x) =>
                   /\ heap'[x]._parent = Alloc(heap)
                   /\ Holds(heap', a, x) /\ Holds(heap', Alloc(heap), x)]_vars

\* An object that a list holds was given to a new SimpleParam, which is its parent
C14_Witness ==
    \E x, a, b \in Live(heap) :
        /\ IsContainer(heap, x) /\ Holds(heap, a, x) /\ Holds(heap, b, x)
        /\ heap[a].cls = ListCls /\ heap[b].cls = StructCls
        /\ last.name = "SimpleParam" /\ heap[x]._parent = b

\* The step takes the item at position i of container c away, by a delete
Deletes(c, i) ==
    /\ last'.target = c
    /\ \/ last'.name = "delitem" /\ ParamList__delitem__(c, i)
       \/ /\ last'.name = "delkey"
          /\ c \in Dicts(heap) /\ i \in DOMAIN heap[c].keys
          /\ ParamDict__delitem__(c, heap[c].keys[i])
\* The step stores value at position i of container c, which holds an item there
Overwrites(c, i, value) ==
    /\ last'.target = c
    /\ \/ last'.name = "setitem" /\ ParamList__setitem__(c, i, value)
       \/ /\ last'.name = "setkey"
          /\ c \in Dicts(heap) /\ i \in DOMAIN heap[c].keys
          /\ ParamDict__setitem__(c, heap[c].keys[i], value)
       \/ last'.name = "setattr" /\ SimpleParam__setattr__(c, i, value)

\* C15: when the object x at a position of container c has c as its parent and is
\* deleted from c or overwritten by another value, x has no parent afterwards and the
\* last_updated of c is at least the first clock value the operation read; when x
\* itself is stored at its position again, its parent is c afterwards
C15_RemovedChildHasNoParent ==
    [][\A c \in Live(heap) : \A i \in DOMAIN heap[c]._contents :
          LET x == heap[c]._contents[i]
          IN IsContainer(heap, c) /\ heap[x]._parent = c =>
                /\ Deletes(c, i) =>
                      /\ heap'[x]._parent = None
                      /\ heap'[c]._last_updated >= last'.start
                /\ \A value \in SharedValues(heap, c) \ {NodeValue(x)} :
                      Overwrites(c, i, value) =>
                         /\ heap'[x]._parent = None
                         /\ heap'[c]._last_updated >= last'.start
                /\ Overwrites(c, i, NodeValue(x)) => heap'[x]._parent = c]_vars

\* A container was deleted from the dict that held it
C15_Witness ==
    \E c, x \in Live(heap) :
        /\ c # x /\ heap[c].cls = DictCls /\ heap[c]._contents = <<>>
        /\ last.name = "delkey" /\ last.target = c
        /\ IsContainer(heap, x) /\ heap[x]._parent = None
        /\ heap[x]._last_updated > 1 /\ heap[c]._last_updated = now

(* ---------------------------------------------------------------------- *)
(* Timestamps the operations leave alone                                   *)
(* ---------------------------------------------------------------------- *)
\* C16: a mutation of container c changes the last_updated of no object that existed
\* before it, other than c and its ancestors: not of the objects below c, not of the
\* object stored into c, not of the objects below that one
C16_MutationChangesNoDescendant ==
    [][last'.target # None =>
          \A n \in Live(heap) \cap Live(heap') :
             n \notin {last'.target} \cup Ancestors(heap, last'.target) =>
                heap'[n]._last_updated = heap[n]._last_updated]_vars

\* C17: the objects a new ParamList, ParamDict or SimpleParam is constructed from have
\* the same last_updated after the construction as before it
C17_ConstructionChangesNoChild ==
    [][last'.name \in {"ParamList", "ParamDict", "SimpleParam"} =>
          \A x \in Range(heap'[Alloc(heap)]._contents) \cap Live(heap) :
             heap'[x]._last_updated = heap[x]._last_updated]_vars

\* C18: when the construction of a ParamList, ParamDict or SimpleParam completes,
\* every object it holds (the objects it was given, the wrappers of the plain values
\* and of the default field values) has the new object as its parent
C18_InitialChildrenHaveNewParent ==
    [][last'.name \in {"ParamList", "ParamDict", "SimpleParam"} =>
          \A x \in Range(heap'[Alloc(heap)]._contents) :
             x \in Live(heap') /\ heap'[x]._parent = Alloc(heap)]_vars

\* A ParamDict was just constructed from an existing container, which it holds
C18_Witness ==
    /\ last.name = "ParamDict"
    /\ \E d \in Dicts(heap) : \E x \in Range(heap[d]._contents) :
          IsContainer(heap, x) /\ heap[x]._parent = d /\ heap[d]._parent = None

\* C19: no step lowers the last_updated of an object, also when the clock reads a time
\* earlier than the timestamp the object was loaded with
C19_LastUpdatedNeverDecreases ==
    [][\A n \in Live(heap) \cap Live(heap') :
          heap'[n]._last_updated >= heap[n]._last_updated]_vars

\* A list was just changed at a clock reading earlier than its timestamp or than the
\* timestamp of a list above it
C19_Witness ==
    /\ last.target # None
    /\ \E n \in {last.target} \cup Ancestors(heap, last.target) :
          heap[n]._last_updated > now

(* ---------------------------------------------------------------------- *)
(* Slices of a ParamList                                                   *)
(* ---------------------------------------------------------------------- *)
\* The slice self[lo..hi] just taken is a list with the same objects in order, the
\* parent and the last_updated of self, and the step changed no existing object
SliceIsView(self, lo, hi) ==
    LET S == Alloc(heap)
    IN /\ heap'[S].cls = ListCls
       /\ heap'[S]._contents = SubSeq(heap[self]._contents, lo, hi)
       /\ heap'[S]._parent = heap[self]._parent
       /\ heap'[S]._last_updated = heap[self]._last_updated
       /\ \A n \in Live(heap) : heap'[n] = heap[n]

\* C20 as stated: a slice of a list is a view of it (same objects, parent and
\* last_updated of the list, nothing changed), and every ParamData object in the slice
\* has the list that was sliced as its parent
C20_SliceElementsHaveSlicedListAsParent ==
    [][\A self \in Nodes, lo \in 1..(MaxLen + 1), hi \in 0..MaxLen :
          ParamList__getitem__slice(self, lo, hi) =>
             /\ SliceIsView(self, lo, hi)
             /\ \A x \in Range(heap'[Alloc(heap)]._contents) :
                   IsContainer(heap', x) => heap'[x]._parent = self]_vars

\* C20, amended: a slice of a list is a view of it, every object in the slice keeps
\* the parent it had, which is the list when the list is the container the object
\* was last stored into, and is never the slice
C20_SliceKeepsParents ==
    [][\A self \in Nodes, lo \in 1..(MaxLen + 1), hi \in 0..MaxLen :
          ParamList__getitem__slice(self, lo, hi) =>
             /\ SliceIsView(self, lo, hi)
             /\ \A x \in Range(heap'[Alloc(heap)]._contents) :
                   /\ heap'[x]._parent = heap[x]._parent
                   /\ heap'[x]._parent # Alloc(heap)]_vars

\* A slice was just taken of a list that has a parent: the slice has that parent, its
\* items have the list as parent
C20_Witness ==
    /\ last.name = "getslice"
    /\ \E L, S \in Lists(heap) :
          /\ L # S /\ heap[S]._contents # <<>>
          /\ Len(heap[S]._contents) <= Len(heap[L]._contents)
          /\ heap[S]._contents = SubSeq(heap[L]._contents, 1, Len(heap[S]._contents))
          /\ heap[L]._parent # None /\ heap[S]._parent = heap[L]._parent
          /\ heap[S]._last_updated = heap[L]._last_updated
          /\ \A x \in Range(heap[S]._contents) : heap[x]._parent = L

\* C21: when an object that a slice of list L holds, and whose parent is L, has just
\* been changed, the last_updated of L is a time of that change: not earlier than the
\* first clock value the operation read, not later than the last
C21_ChangeThroughSliceReachesList ==
    last.target # None =>
        \A L, S \in Lists(heap) :
            /\ L # S /\ Holds(heap, L, last.target) /\ Holds(heap, S, last.target)
            /\ heap[last.target]._parent = L
            => heap[L]._last_updated >= last.start /\ heap[L]._last_updated <= now

(* ---------------------------------------------------------------------- *)
(* Timestamps of the commits                                               *)
(* ---------------------------------------------------------------------- *)
\* The instant a timestamp given to commit() denotes: a naive one is a UTC time
GivenInstant(dt) == IF dt.tzinfo = NaiveTz THEN dt.wall ELSE Instant(dt)
Aware(dt) == dt.tzinfo \in Zones

\* C22: the entry commit() returns has an aware timestamp, at the instant of the
\* timestamp given (naive: taken as UTC; aware: of any zone) or, with none given, at
\* the time of the commit; load_commit_entry, commit_history and
\* commit_history_with_data report aware timestamps at the instant commit() returned
C22_CommitTimestampIsInstantGiven ==
    /\ Ok("commit") =>
          /\ Aware(ret.entry.timestamp)
          /\ Instant(ret.entry.timestamp) =
                IF ret.timestamp = NoTimestamp THEN now ELSE GivenInstant(ret.timestamp)
          /\ returned[Len(returned)].entry = ret.entry
    /\ Ok("load_commit_entry") =>
          /\ Aware(ret.entry.timestamp)
          /\ Instant(ret.entry.timestamp) = Instant(returned[Selected].entry.timestamp)
    /\ ret.op \in {"commit_history", "commit_history_with_data"} /\ ret.status = "ok" =>
          \A i \in DOMAIN ret.entries :
             /\ Aware(ret.entries[i].timestamp)
             /\ Instant(ret.entries[i].timestamp) = Instant(returned[i].entry.timestamp)

\* The second commit was given a timestamp of a zone other than UTC and that of the
\* machine, and its entry has the instant of the first commit, in the zone of the
\* machine
C22_Witness ==
    /\ Ok("commit") /\ Len(log) = 2
    /\ ret.timestamp.tzinfo = "other"
    /\ ret.entry.timestamp.tzinfo = LocalTz
    /\ ret.entry.timestamp.wall # ret.timestamp.wall
    /\ Instant(ret.entry.timestamp) = Instant(returned[1].entry.timestamp)

(* ---------------------------------------------------------------------- *)
(* parent and root                                                         *)
(* ---------------------------------------------------------------------- *)
Holders(h, n) == {c \in Live(h) : Holds(h, c, n)}

\* C23: parent returns the container that holds the object and fails with the
\* no-parent error when no container holds it; root returns an object no container
\* holds, reached from the object through its holders: the object itself when nothing
\* holds it, the topmost container at any depth otherwise.
C23_ParentAndRootFollowNesting ==
    /\ ret.op = "parent" /\ ret.initialized =>
          IF Holders(heap, ret.self) = {}
          THEN ret.status = "ValueError" /\ ret.error = NoParent
          ELSE ret.status = "ok" /\ Holders(heap, ret.self) = {ret.obj}
    /\ ret.op = "root" /\ ret.initialized =>
          /\ ret.status = "ok"
          /\ Holders(heap, ret.obj) = {}
          /\ ret.self \in {ret.obj} \cup Below(heap, ret.obj)
          /\ Holders(heap, ret.self) = {} => ret.obj = ret.self
C23_Witness ==
    /\ Ok("root") /\ ret.initialized
    /\ ret.obj # ret.self
    /\ heap[ret.self]._parent # ret.obj
    /\ heap[heap[ret.self]._parent]._parent = ret.obj

\* C24: parent and root read from inside the construction of the object fail with the
\* not-initialized error, which is not the no-parent error, and return no object;
\* parent read after the construction of an object without parent fails with the
\* no-parent error.
C24_AccessBeforeInitializedFails ==
    /\ ret.op \in {"parent", "root"} /\ ~ret.initialized =>
          /\ ret.status = "ValueError" /\ ret.error = NotInitialized
          /\ ret.error # NoParent /\ ret.obj = None
    /\ ret.op = "parent" /\ ret.initialized /\ heap[ret.self]._parent = None =>
          ret.status = "ValueError" /\ ret.error = NoParent

(* ---------------------------------------------------------------------- *)
(* Assignment to the fields of a parameter data class                      *)
(* ---------------------------------------------------------------------- *)
\* C25: an assignment to a declared field that the validator rejects raises the
\* validator's error and changes neither the field, nor the parent of the old child,
\* nor any last_updated; one that it accepts leaves the old child without parent, the
\* new child in the field with the object as parent, and the new child, the object
\* and its ancestors with a last_updated of the time of the assignment.
C25_ValidationBeforeAssignment ==
    [][ret'.op = "setattr" =>
          LET self == ret'.self
              i == ret'.count
              value == [n |-> ret'.obj, p |-> ret'.data]
              old == heap[self]._contents[i]
              child == heap'[self]._contents[i]
          IN IF validate_assignment(value) # ""
             THEN /\ ret'.status = "ValidationError"
                  /\ ret'.error = validate_assignment(value)
                  /\ child = old /\ (old # None => heap'[old] = heap[old])
                  /\ \A n \in Nodes : heap'[n]._last_updated = heap[n]._last_updated
             ELSE /\ ret'.status = "ok"
                  /\ old \in Live(heap') => heap'[old]._parent = None
                  /\ IF value.n # None THEN child = value.n
                     ELSE heap'[child].cls = WrapperCls /\ heap'[child].value = value.p
                  /\ heap'[child]._parent = self
                  /\ \A a \in {child, self} \cup Ancestors(heap', self) :
                        /\ heap'[a]._last_updated >= last'.start
                        /\ heap'[a]._last_updated <= now']_vars

\* C26: setting an attribute that is not a declared field changes the last_updated of
\* no object, neither of the object nor of an ancestor, creates no wrapper and changes
\* no parent link.
C26_NonFieldChangesNothing ==
    [][last'.name = "setattr_non_field" =>
          /\ heap'[last'.target].non_field # heap[last'.target].non_field
                 \/ heap' = heap
          /\ \A n \in Nodes :
                /\ heap'[n]._last_updated = heap[n]._last_updated
                /\ heap'[n]._parent = heap[n]._parent
                /\ heap'[n].cls = heap[n].cls
                /\ heap'[n]._contents = heap[n]._contents]_vars
C26_Witness ==
    /\ last.name = "setattr_non_field"
    /\ heap[last.target]._parent # None
    /\ heap[last.target].non_field = PlainValue(DEFAULT_NUMBER)

(* ---------------------------------------------------------------------- *)
(* Attribute access to the items of a ParamDict                            *)
(* ---------------------------------------------------------------------- *)
\* What the claim says of names that are no reserved names, and of absent keys
AttributeActsAsKey ==
    LET self == ret'.self
        name == ret'.name
        value == [n |-> ret'.obj, p |-> ret'.data]
    IN /\ ret'.op = "getattr" /\ ~_is_attribute(name) =>
             IF ContainsKey(heap, self, name)
             THEN /\ ret'.status = "ok" /\ ret'.kind = "item"
                  /\ value = ParamDict__getitem__(heap, self, name)
             ELSE ret'.status = "AttributeError"
       /\ ret'.op = "getitem" =>
             IF ContainsKey(heap, self, name)
             THEN ret'.status = "ok" /\ value = ParamDict__getitem__(heap, self, name)
             ELSE ret'.status = "KeyError"
       /\ ret'.op \in {"getattr", "getitem"} => heap' = heap /\ now' = now
       /\ ret'.op = "setattr" /\ ~_is_attribute(name) =>
             ret'.status = "ok" /\ ParamDict__setitem__(self, name, value)
       /\ ret'.op = "delattr" /\ ~_is_attribute(name) =>
             IF ContainsKey(heap, self, name)
             THEN ret'.status = "ok" /\ ParamDict__delitem__(self, name)
             ELSE ret'.status = "AttributeError" /\ heap' = heap /\ now' = now
       /\ ret'.op = "delitem" /\ ~ContainsKey(heap, self, name) =>
             ret'.status = "KeyError" /\ heap' = heap /\ now' = now

\* C27: for a key that is no reserved name, reading, setting and deleting the attribute
\* is reading, setting and deleting the item; reading or deleting the attribute of an
\* absent key and reading the attribute of a reserved name raise AttributeError;
\* getting or deleting an absent key with brackets raises KeyError.
C27_AttributeIsItem ==
    [][/\ AttributeActsAsKey
       /\ ret'.op = "getattr" /\ _is_attribute(ret'.name) =>
             ret'.status = "AttributeError"]_vars

\* C27 as amended: reading the attribute of a reserved name gives the attribute when
\* the object has one and raises AttributeError otherwise, never the item stored
\* under that key.
C27_AttributeIsItemUnlessReserved ==
    [][/\ AttributeActsAsKey
       /\ ret'.op = "getattr" /\ _is_attribute(ret'.name) =>
             IF ret'.name \in ExistingAttributes
             THEN ret'.status = "ok" /\ ret'.kind = "attribute"
             ELSE ret'.status = "AttributeError"]_vars
C27_Witness ==
    /\ ret.op = "getattr" /\ ret.status = "AttributeError"
    /\ dunder(ret.name) /\ ContainsKey(heap, ret.self, ret.name)
    /\ ContainsKey(heap, ret.self, "a")
    /\ heap[ret.self]._last_updated > 1

(* ---------------------------------------------------------------------- *)
(* Objects rebuilt by from_json                                            *)
(* ---------------------------------------------------------------------- *)
\* C28: the object from_json returns has no parent and is the parent of every object
\* it holds; a later change of an object held in a rebuilt tree leaves that object
\* and the root of the tree with a last_updated of the time of the change.
C28_LoadedTreeIsLive ==
    [][/\ last'.name = "from_json" =>
             LET self == Alloc(heap)
             IN /\ heap'[self]._parent = None
                /\ \A x \in Range(heap'[self]._contents) : heap'[x]._parent = self
       /\ last'.target # None /\ heap[last'.target]._parent # None =>
             \A a \in {last'.target, root(heap', last'.target)} :
                 heap'[a]._last_updated >= last'.start]_vars

(* ---------------------------------------------------------------------- *)
(* Equality of collections                                                 *)
(* ---------------------------------------------------------------------- *)
Variant(x) == IF x.t \in ListClasses THEN "List"
              ELSE IF x.t \in DictClasses THEN "Map" ELSE ""
\* The item as it is read from its collection
AsRead(x) == IF x.t = WrapperCls THEN x.items[1].x ELSE x
ElementWiseEqual(a, b) ==
    /\ Len(a.items) = Len(b.items)
    /\ IF Variant(a) = "Map"
       THEN /\ {a.items[i].k : i \in DOMAIN a.items} = {b.items[j].k : j \in DOMAIN b.items}
            /\ \A i \in DOMAIN a.items : \A j \in DOMAIN b.items :
                  a.items[i].k = b.items[j].k =>
                      eq(AsRead(a.items[i].x), AsRead(b.items[j].x))
       ELSE \A i \in DOMAIN a.items : eq(AsRead(a.items[i].x), AsRead(b.items[i].x))
\* C29: two collections are equal exactly when both are lists or both are
\* dictionaries of the library, subclasses included, and the items read from them are
\* equal one by one; a list is never equal to a dictionary, and a collection is never
\* equal to a plain list or dict, whatever the contents and on either side of ==.
C29_EqualityByVariantAndContents ==
    ret.op = "eq" =>
        /\ ret.equal <=> /\ Variant(ret.data) # ""
                         /\ Variant(ret.data) = Variant(ret.other)
                         /\ ElementWiseEqual(ret.data, ret.other)
        /\ Variant(ret.data) # Variant(ret.other) => ~ret.equal
C29_Witness ==
    /\ ret.op = "eq" /\ ret.equal
    /\ ret.data.t = ListCls /\ ret.other.t = CustomListCls
    /\ Len(ret.data.items) = MaxLen
    /\ ret.data.lu # ret.other.lu
    /\ ret.data.items[1].x.t = ListCls /\ ret.other.items[1].x.t = CustomListCls
    /\ ret.data.items[2].x.t = WrapperCls

(* ---------------------------------------------------------------------- *)
(* Reading what was stored                                                 *)
(* ---------------------------------------------------------------------- *)
StoreOps == {"setitem", "insert", "setattr"}
JustStored == ret.op \in StoreOps /\ ret.status = "ok" /\ ret'.self = ret.self
SameSlot == ret'.index = ret.index /\ ret'.name = ret.name
IsWrapper(h, value) == value.n # None /\ h[value.n].cls = WrapperCls
\* C30: a read of the field or slot a value was just stored in, by index, by key, by
\* attribute or by iteration, gives that value: the plain value itself or the very
\* object stored; no read ever gives a wrapper; and child_last_updated of that slot
\* gives the time the plain value was stored, or the last_updated of the object stored.
C30_WrappersAreTransparent ==
    [][/\ JustStored /\ SameSlot /\ ret'.op \in {"getitem", "getattribute"} =>
             /\ ret'.status = "ok"
             /\ ret'.obj = ret.obj /\ ret'.data = ret.data
       /\ JustStored /\ ret'.op = "iter" /\ ret.index # 0 =>
             ret'.entries[ret.index] = [n |-> ret.obj, p |-> ret.data]
       /\ ret'.op \in {"getitem", "getattribute"} /\ ret'.status = "ok" =>
             ~IsWrapper(heap, [n |-> ret'.obj, p |-> ret'.data])
       /\ ret'.op = "iter" =>
             \A i \in DOMAIN ret'.entries : ~IsWrapper(heap, ret'.entries[i])
       /\ JustStored /\ SameSlot /\ ret'.op = "child_last_updated" =>
             /\ ret'.status = "ok"
             /\ ret'.time = IF ret.obj = None THEN now
                            ELSE heap[ret.obj]._last_updated]_vars
C30_Witness ==
    /\ ret.op = "getitem" /\ ret.index = 2
    /\ ret.obj = None /\ ret.data = OtherNumber
    /\ heap[heap[ret.self]._contents[2]].cls = WrapperCls
    /\ heap[heap[ret.self]._contents[1]].cls = WrapperCls
    /\ heap[heap[ret.self]._contents[1]]._last_updated
          < heap[heap[ret.self]._contents[2]]._last_updated

(* ---------------------------------------------------------------------- *)
(* to_json of the objects                                                  *)
(* ---------------------------------------------------------------------- *)
FieldAt(name) == IndexOf(FieldNames, name)
\* to_json() of a list or a dictionary gives the contents with the children as stored
CollectionToJson ==
    ret.op = "to_json" /\ heap[ret.self].cls \in {ListCls, DictCls} =>
        /\ ret.data.t = IF heap[ret.self].cls = ListCls THEN "list" ELSE "dict"
        /\ Len(ret.data.items) = Len(heap[ret.self]._contents)
        /\ \A i \in DOMAIN ret.data.items :
              /\ ret.data.items[i].x = Obj(heap, heap[ret.self]._contents[i])
              /\ heap[ret.self].cls = DictCls =>
                    ret.data.items[i].k = heap[ret.self].keys[i]
SourcesOf(k) == {j \in DOMAIN returned :
                    /\ ~IsStr(returned[j].tree)
                    /\ _decompress(returned[j].payload) = returned[k].tree}
\* load(raw_json=True) of a commit made with raw_json=True returns the string committed
RawRoundTrip ==
    Ok("load_raw_json") /\ IsStr(returned[Selected].tree) =>
        ret.data = returned[Selected].tree
C33_ParentRelationAcyclic ==
    /\ \A n \in Live(heap) : n \notin ParentChain(heap, n, MaxNodes)
    /\ ret.op = "root" => ret.status = "ok" /\ heap[ret.obj]._parent = None

(* ---------------------------------------------------------------------- *)
(* Removal of an object that another slot still holds                      *)
(* ---------------------------------------------------------------------- *)
\* C34: when the object x at a position of container a is deleted from a or overwritten
\* by another value, and a is not the parent of x or a still holds x at another
\* position afterwards, the parent of x is what it was.
C34_RemovalKeepsParentOfObjectHeldElsewhere ==
    [][\A a \in Live(heap) : \A i \in DOMAIN heap[a]._contents :
          LET x == heap[a]._contents[i]
          IN /\ IsContainer(heap, a) /\ IsContainer(heap, x)
             /\ \/ Deletes(a, i)
                \/ \E value \in SharedValues(heap, a) \ {NodeValue(x)} :
                      Overwrites(a, i, value)
             /\ heap[x]._parent # a \/ Holds(heap', a, x)
             => heap'[x]._parent = heap[x]._parent]_vars

(* ---------------------------------------------------------------------- *)
(* Changes of a slice                                                      *)
(* ---------------------------------------------------------------------- *)
\* C35: when an item of a slice S of list L, an item L holds and whose parent is L, is
\* deleted from S or overwritten in S, L holds the same items afterwards and every
\* object L holds that had L as its parent still has.
C35_ChangeOfSliceLeavesList ==
    [][\A L, S \in Lists(heap) : \A i \in DOMAIN heap[S]._contents :
          LET x == heap[S]._contents[i]
          IN /\ L # S /\ Holds(heap, L, x) /\ heap[x]._parent = L
             /\ \/ Deletes(S, i)
                \/ \E value \in {PlainValue(p) : p \in GraphPlain} : Overwrites(S, i, value)
             => /\ heap'[L]._contents = heap[L]._contents
                /\ \A y \in Range(heap[L]._contents) :
                      IsContainer(heap, y) /\ heap[y]._parent = L
                         => heap'[y]._parent = L]_vars

(* ---------------------------------------------------------------------- *)
(* Operations on lists and dictionaries that raise                         *)
(* ---------------------------------------------------------------------- *)
\* The step is the operation op on a list
ListOp(op) == ret'.op = op /\ last'.name # "setattr" /\ ret'.self \in Lists(heap)
\* C36: reading, assigning and deleting a list item at an index out of range raises
\* IndexError, reading and deleting an absent key of a dictionary raises KeyError,
\* assigning a value that is not iterable to a slice raises TypeError, assigning to an
\* extended slice a number of values other than the number of its positions raises
\* ValueError; and each of them leaves every object as it was: contents, last_updated
\* and parent.
C36_FailedOperationChangesNothing ==
    [][/\ \E op \in {"getitem", "setitem", "delitem"} :
             ListOp(op) /\ OutOfRange(ret'.self, ret'.index)
          => ret'.status = "IndexError" /\ heap' = heap
       /\ /\ ret'.op \in {"getitem", "delitem"} /\ ret'.self \in Dicts(heap)
          /\ ~ContainsKey(heap, ret'.self, ret'.name)
          => ret'.status = "KeyError" /\ heap' = heap
       /\ \E op \in {"setslice", "setextended"} : ListOp(op) /\ ret'.kind = "number"
          => ret'.status = "TypeError" /\ heap' = heap
       /\ /\ ListOp("setextended") /\ ret'.kind = "iterable"
          /\ ret'.count #
                Cardinality(Selects(Len(heap[ret'.self]._contents), ret'.index))
          => ret'.status = "ValueError" /\ heap' = heap]_vars

\* Two values were assigned to the one position of the slice [::2] of a list, at a
\* later time, while there is a list without parent to give: ValueError
C36_Witness ==
    /\ ret.op = "setextended" /\ ret.status = "ValueError" /\ ret.count > 1
    /\ Len(heap[ret.self]._contents) = 1 /\ heap[ret.self]._last_updated < now
    /\ \E x \in Lists(heap) : x # ret.self /\ heap[x]._parent = None /\ x \notin Referenced(heap)

(* ---------------------------------------------------------------------- *)
(* The objects load() creates                                              *)
(* ---------------------------------------------------------------------- *)
\* The objects of the tree of root r
Tree(h, r) == {r} \cup Below(h, r)
\* C37: commit changes no object; load changes no object there was, and the tree it
\* returns is made of new objects, has no parent and is the tree decoded; an insert
\* into a list changes no object outside the tree of that list, and not the commits.
C37_CommitAndLoadAreReadOnly ==
    [][/\ ret'.op = "commit" /\ last'.name = "" => heap' = heap
       /\ last'.name = "load" =>
             /\ \A n \in Live(heap) : heap'[n] = heap[n]
             /\ ret'.status = "ok" =>
                   /\ Tree(heap', ret'.obj) \cap Live(heap) = {}
                   /\ Live(heap') = Live(heap) \cup Tree(heap', ret'.obj)
                   /\ heap'[ret'.obj]._parent = None
                   /\ Obj(heap', ret'.obj) = ret'.data
                   /\ log' = log
       /\ last'.name = "insert" =>
             /\ log' = log
             /\ \A n \in Live(heap) \ Tree(heap, root(heap, last'.target)) :
                   heap'[n] = heap[n]]_vars

\* A number was inserted into the list load() returned: the list differs from what was
\* loaded, and the list committed is as it was committed
C37_Witness ==
    /\ Loaded /\ last.name = "insert" /\ root(heap, last.target) = ret.obj
    /\ Obj(heap, ret.obj) # ret.data
    /\ \E n \in Roots(heap) \ {ret.obj} :
          /\ Obj(heap, n) = returned[Selected].tree
          /\ PyEq(ret.data, returned[Selected].tree)
====
